---- MODULE Spec2Model ----
(***************************************************************************)
(* Model of the outreach-automation core of the crawler: the submission    *)
(* verifier, the form analyzer, the locator's candidate scoring, the       *)
(* CAPTCHA queue, the retry coordinator around the strategy engine and the *)
(* submission service with its per-site throttle.                          *)
(*                                                                         *)
(* Confidence values are kept as integer percentages: the code computes    *)
(* an integer number of points and divides it by 100.0, so 0.30 is 30.     *)
(* Time is counted in whole seconds.                                       *)
(***************************************************************************)
EXTENDS Integers, Sequences, FiniteSets, TLC

VARIABLES
    pc,                     \* position of the running call
    now,                    \* wall clock, seconds
    calls,                  \* submit_inquiry calls started so far
    form_url,               \* target of the running submit_inquiry call
    fetch_attempt,          \* submit_inquiry: fetch loop counter
    html_content,           \* the page handed to the pipeline / submitter
    result,                 \* submit_inquiry: the result dictionary
    submission_result,      \* the SubmissionResult under construction
    attempt,                \* retry loop counter
    best_response,          \* retry loop: best response tracked
    best_confidence,        \* retry loop: its confidence
    response,               \* what the retry loop returned
    queue,                  \* CaptchaQueueManager.queue
    last_submission_times,  \* FormSubmissionService._last_submission_times
    use_browser_fallback,   \* FormSubmitter.use_browser_fallback
    server_fetches,         \* pages served so far (each carries a fresh token)
    env,                    \* attempt outcomes the destination may produce
    caller,                 \* who called submit_form
    dispatches,             \* per site, the times of its last two submissions
    log,                    \* observations of the running call
    calcIn,                 \* input of a scoring function
    calcOut,                \* its output
    site,                   \* the web site the locator probes
    tiers,                  \* locator tiers invoked so far, in order
    probes,                 \* robots consultations and fetches, in order
    visited_urls,           \* EnhancedContactFormDetector.visited_urls
    detection,              \* what detect_contact_form returned
    crawl,                  \* the loop state of _crawl_and_find_forms
    queue_file,             \* lines of CaptchaQueueManager.queue_file
    exported,               \* rows of the CSV export_pending_to_csv wrote last
    last_call,              \* the queue manager call made last, and its return
    submission_log,         \* lines the running call appended to the log file
    db_log,                 \* rows the running call added to the database
    raised,                 \* the running call raised to its caller
    history,                \* verify_submission calls made so far, and the
                            \* files in the verifier's response_dir
    bulk,                   \* the running submit_bulk_inquiries call
    managers                \* the queue of each CaptchaQueueManager instance
                            \* opened on queue_file

vars == <<pc, now, calls, form_url, fetch_attempt, html_content, result,
          submission_result, attempt, best_response, best_confidence,
          response, queue, last_submission_times, use_browser_fallback,
          server_fetches, env, caller, dispatches, log, calcIn, calcOut,
          site, tiers, probes, visited_urls, detection, crawl, queue_file,
          exported, last_call, submission_log, db_log, raised, history, bulk,
          managers>>

locatorVars == <<site, tiers, probes, visited_urls, detection, crawl>>
queueVars == <<queue_file, exported, last_call>>
sinkVars == <<submission_log, db_log, raised>>
verifierVars == <<history>>
bulkVars == <<bulk>>
writerVars == <<managers>>

None == "None"

Max(a, b) == IF a >= b THEN a ELSE b
Min(a, b) == IF a <= b THEN a ELSE b

RECURSIVE Pow(_, _)
Pow(b, e) == IF e = 0 THEN 1 ELSE b * Pow(b, e - 1)

(***************************************************************************)
(* Text.  A string is a sequence of characters; `in` is substring search.  *)
(***************************************************************************)
IsSubstring(needle, hay) ==
    \E i \in 0..(Len(hay) - Len(needle)) :
        \A j \in 1..Len(needle) : hay[i + j] = needle[j]

(***************************************************************************)
(* SubmissionVerifier.                                                     *)
(*                                                                         *)
(* A response is [status, url, body, form, unreadable].  body is the set   *)
(* of phrases the lower-cased content consists of, form says whether the   *)
(* content holds a <form>, and unreadable says that reading or parsing the *)
(* content raises.  The keyword tables give, for each phrase, the entries  *)
(* of the code's lists that are substrings of it.  Japanese keywords are   *)
(* written in romaji: arigatou_gozaimashita, kanryou (the 2-kanji word for *)
(* "completed"), soushin_kanryou ("sending completed").                    *)
(***************************************************************************)
Vocabulary ==
    {"thank you", "successful", "arigatou_gozaimashita", "soushin_kanryou",
     "complete", "error", "failed", "required"}

\* entries of SUCCESS_KEYWORDS that occur in the phrase
SUCCESS_KEYWORDS(ph) ==
    CASE ph = "thank you"             -> {"thank you"}
      [] ph = "successful"            -> {"success", "successful"}
      [] ph = "arigatou_gozaimashita" -> {"arigatou_gozaimashita"}
      [] ph = "soushin_kanryou"       -> {"kanryou", "soushin_kanryou"}
      [] OTHER                        -> {}

\* entries of ERROR_KEYWORDS that occur in the phrase
ERROR_KEYWORDS(ph) ==
    CASE ph = "error"  -> {"error"}
      [] ph = "failed" -> {"fail", "failed"}
      [] OTHER         -> {}

\* some entry of VALIDATION_ERROR_PATTERNS matches the phrase
VALIDATION_ERROR_PATTERNS(ph) == ph = "required"

\* the phrase holds one of 'thank', 'complete', 'success', 'confirm',
\* kakunin, kanryou (the inline list of the form-still-present check)
ConfirmationWords(ph) ==
    ph \in {"thank you", "successful", "soushin_kanryou", "complete"}

\* A URL is [base, path]: base is scheme://netloc, as urlparse splits it.
FormUrls ==
    {[base |-> "https://example.jp", path |-> "/contact"],
     [base |-> "https://example.com", path |-> "/contact"]}

ResponsePaths ==
    {"/contact", "/contact/thanks", "/contact/submit", "/contact/error"}

SUCCESS_URL_PATTERNS_thank_you_only(url) == url.path = "/contact/thank-you"

\* some entry of SUCCESS_URL_PATTERNS matches the URL
SUCCESS_URL_PATTERNS(url) == url.path = "/contact/thanks"

\* 'error' in url.lower()
ErrorInUrl(url) == url.path = "/contact/error"

found_success(body) == UNION {SUCCESS_KEYWORDS(ph) : ph \in body}
found_errors(body)  == UNION {ERROR_KEYWORDS(ph) : ph \in body}

\* the points gathered by strategies 1 to 6, before normalisation
VerificationPoints(r, original) ==
    LET status ==
            IF 200 <= r.status /\ r.status < 300 THEN 30
            ELSE IF 300 <= r.status /\ r.status < 400 THEN 20
            ELSE 0 - 40
        urlchange ==
            IF r.url # original
            THEN 10 + (IF SUCCESS_URL_PATTERNS(r.url) THEN 25 ELSE 0)
            ELSE 0
        success ==
            IF found_success(r.body) # {}
            THEN Min(40, Cardinality(found_success(r.body)) * 10) ELSE 0
        errors ==
            IF found_errors(r.body) # {}
            THEN Min(40, Cardinality(found_errors(r.body)) * 10) ELSE 0
        validation ==
            IF \E ph \in r.body : VALIDATION_ERROR_PATTERNS(ph) THEN 30 ELSE 0
        formpresent ==
            IF ~r.form THEN 0
            ELSE IF \E ph \in r.body : ConfirmationWords(ph) THEN 10
            ELSE IF r.url = original THEN 0 - 25
            ELSE IF ErrorInUrl(r.url) THEN 0 - 30
            ELSE 0 - 5
    IN  status + urlchange + success - errors - validation + formpresent

NormalizeConfidence_no_floor(points) == Min(100, points)

\* max(0.0, min(1.0, points / 100.0)), in percent
NormalizeConfidence(points) == Max(0, Min(100, points))

verify_submission(r, original) ==
    IF r.unreadable
    THEN \* the except branch: only the confidence is set
         [success |-> FALSE, confidence |-> 50]
    ELSE LET confidence == NormalizeConfidence(VerificationPoints(r, original))
         IN  [success |-> confidence >= 30, confidence |-> confidence]

(***************************************************************************)
(* FormAnalyzer.                                                           *)
(*                                                                         *)
(* A page is what a fetch of the form URL returns: [form, markers, action, *)
(* required, key_field, script, hidden, multi_step, ajax, token].  markers *)
(* is the set of CAPTCHA checks whose patterns match the HTML, hidden says *)
(* whether the form carries a hidden CSRF input, and token is the value    *)
(* the server put into it when it served the page.                         *)
(***************************************************************************)
CaptchaTypes == <<"recaptcha_v2", "recaptcha_v3", "hcaptcha", "image">>

\* _detect_captcha: what the if/elif chain leaves in has_captcha and
\* captcha_type, and the issues it appends
detect_captcha_last_match(markers) ==
    LET Hit(t) == [has_captcha |-> TRUE, captcha_type |-> t, issues |-> <<t>>]
    IN  IF "image" \in markers THEN Hit("image")
        ELSE IF "hcaptcha" \in markers THEN Hit("hcaptcha")
        ELSE IF "recaptcha_v3" \in markers THEN Hit("recaptcha_v3")
        ELSE IF "recaptcha_v2" \in markers THEN Hit("recaptcha_v2")
        ELSE [has_captcha |-> FALSE, captcha_type |-> None, issues |-> <<>>]

detect_captcha(markers) ==
    LET Hit(t) == [has_captcha |-> TRUE, captcha_type |-> t, issues |-> <<t>>]
    IN  IF "recaptcha_v2" \in markers THEN Hit("recaptcha_v2")
        ELSE IF "recaptcha_v3" \in markers THEN Hit("recaptcha_v3")
        ELSE IF "hcaptcha" \in markers THEN Hit("hcaptcha")
        ELSE IF "image" \in markers THEN Hit("image")
        ELSE [has_captcha |-> FALSE, captcha_type |-> None, issues |-> <<>>]

\* score of _calculate_confidence before normalisation; a is
\* [form_action, required, key_field, has_captcha, submission_type, hidden]
AnalysisPoints(a) ==
      (IF a.form_action THEN 30 ELSE 10)
    + (IF a.required > 0 THEN Min(20, a.required * 5) ELSE 0)
    + (IF a.key_field THEN 20 ELSE 0)
    + (IF ~a.has_captcha THEN 20 ELSE 0 - 10)
    + (IF a.submission_type = "standard" THEN 10
       ELSE IF a.submission_type = "ajax" THEN 5 ELSE 0 - 5)
    + (IF a.hidden THEN 10 ELSE 0)

calculate_confidence(a) == Max(0, Min(100, AnalysisPoints(a)))

\* FormAnalyzer.analyze; found = FALSE stands for the None it returns
\* when the page has no <form>
analyze(page) ==
    LET captcha == detect_captcha(page.markers)
        a == [form_action |-> page.action,
              required |-> page.required,
              key_field |-> page.key_field,
              has_captcha |-> captcha.has_captcha,
              submission_type |-> page.script,
              hidden |-> page.hidden]
    IN  IF ~page.form
        THEN [found |-> FALSE, has_captcha |-> FALSE, captcha_type |-> None,
              issues |-> <<>>, hidden_fields |-> {}, confidence |-> 0]
        ELSE [found |-> TRUE,
              has_captcha |-> captcha.has_captcha,
              captcha_type |-> captcha.captcha_type,
              issues |-> captcha.issues,
              hidden_fields |-> IF page.hidden THEN {page.token} ELSE {},
              confidence |-> calculate_confidence(a)]

(***************************************************************************)
(* EnhancedContactFormDetector._score_candidates, for one candidate.       *)
(***************************************************************************)
STRONG_METHODS ==
    {"pattern_match", "top_priority_fallback", "high_priority_fallback",
     "parameter_link"}

CandidatePoints(c) ==
      10
    + (IF c.has_email_field THEN 30 ELSE 0)
    + (IF c.has_message_field THEN 25 ELSE 0)
    + (IF c.has_name_field THEN 15 ELSE 0)
    + (IF c.has_phone_field THEN 10 ELSE 0)
    + (IF c.has_company_field THEN 8 ELSE 0)
    + (IF c.has_subject_field THEN 5 ELSE 0)
    + (IF c.text_fields >= 1 THEN 8 ELSE 0)
    + (IF c.textareas >= 1 THEN 5 ELSE 0)
    + (IF c.keywords_found > 0 THEN Min(c.keywords_found * 5, 20) ELSE 0)
    + (IF c.contact_url THEN 25 ELSE 0)
    + (IF c.submit_button THEN 15 ELSE 0)
    + (IF c.form_method = "POST" THEN 10 ELSE 0)
    + (IF c.required_fields >= 2 THEN 8 ELSE 0)
    + (IF c.detection_method \in STRONG_METHODS THEN 40
       ELSE IF c.detection_method = "site_crawl" THEN 20 ELSE 0)

score_candidate(c) == Max(10, Min(100, CandidatePoints(c)))

(***************************************************************************)
(* Messages.  The pipeline reports a CAPTCHA through the text of           *)
(* SubmissionResult.error and the service reads it back by substring       *)
(* search, so these texts are spelled out as character sequences.          *)
(***************************************************************************)
TypeText(captcha_type) ==
    CASE captcha_type = "recaptcha_v2" -> <<"r", "e", "c", "a", "p", "t", "c", "h", "a", "_", "v", "2">>
      [] captcha_type = "recaptcha_v3" -> <<"r", "e", "c", "a", "p", "t", "c", "h", "a", "_", "v", "3">>
      [] captcha_type = "hcaptcha"     -> <<"h", "c", "a", "p", "t", "c", "h", "a">>
      [] captcha_type = "image"        -> <<"i", "m", "a", "g", "e">>
      [] OTHER                         -> <<"N", "o", "n", "e">>

\* f"Form has {analysis.captcha_type} - cannot submit"
CaptchaError(captcha_type) ==
    <<"F", "o", "r", "m", " ", "h", "a", "s", " ">> \o TypeText(captcha_type)
    \o <<" ", "-", " ", "c", "a", "n", "n", "o", "t", " ", "s", "u", "b", "m", "i", "t">>

AnalyzeError ==
    <<"C", "o", "u", "l", "d", " ", "n", "o", "t", " ", "a", "n", "a", "l",
      "y", "z", "e", " ", "f", "o", "r", "m">>

\* str.lower(), on the letters these messages use
Lower(text) ==
    [i \in 1..Len(text) |->
        CASE text[i] = "F" -> "f"
          [] text[i] = "C" -> "c"
          [] text[i] = "N" -> "n"
          [] OTHER         -> text[i]]

\* the elif chain that reads the CAPTCHA type back from the error text
ExtractCaptchaType(error) ==
    IF IsSubstring(<<"r", "e", "c", "a", "p", "t", "c", "h", "a", " ", "v", "2">>, Lower(error))
    THEN "recaptcha_v2"
    ELSE IF IsSubstring(<<"r", "e", "c", "a", "p", "t", "c", "h", "a", " ", "v", "3">>, Lower(error))
    THEN "recaptcha_v3"
    ELSE IF IsSubstring(<<"h", "c", "a", "p", "t", "c", "h", "a">>, Lower(error)) THEN "hcaptcha"
    ELSE IF IsSubstring(<<"i", "m", "a", "g", "e">>, Lower(error)) THEN "image"
    ELSE "unknown"

\* submission_result.error and 'captcha' in submission_result.error.lower()
IsCaptchaError(error) ==
    error # <<>> /\ IsSubstring(<<"c", "a", "p", "t", "c", "h", "a">>, Lower(error))

(***************************************************************************)
(* CaptchaQueueManager.  An entry is [url, form_url, captcha_type, status, *)
(* notes]; the queue file holds one line per entry, with the same fields.  *)
(***************************************************************************)
NoNotes == "None"

add_form(q, url, furl, captcha_type) ==
    Append(q, [url |-> url, form_url |-> furl,
               captcha_type |-> captcha_type, status |-> "pending",
               notes |-> NoNotes])

get_pending_forms(q) == SelectSeq(q, LAMBDA f : f.status = "pending")

\* get_form_by_url: the index of the first entry with that form_url, 0 for
\* None
get_form_by_url_last(q, furl) ==
    IF \E i \in DOMAIN q : q[i].form_url = furl
    THEN CHOOSE i \in DOMAIN q :
            /\ q[i].form_url = furl
            /\ \A j \in (i + 1)..Len(q) : q[j].form_url # furl
    ELSE 0

get_form_by_url(q, furl) ==
    IF \E i \in DOMAIN q : q[i].form_url = furl
    THEN CHOOSE i \in DOMAIN q :
            /\ q[i].form_url = furl
            /\ \A j \in 1..(i - 1) : q[j].form_url # furl
    ELSE 0

\* update_status(form_url, status, notes): the queue it leaves
update_status(q, furl, status, notes) ==
    LET form == get_form_by_url(q, furl)
    IN  IF form # 0
        THEN [q EXCEPT ![form].status = status,
                       ![form].notes = IF notes # NoNotes THEN notes ELSE @]
        ELSE q

save_queue_appending(q, file, ok) ==
    IF ok /\ q # <<>> THEN Append(file, q[Len(q)]) ELSE file

\* _save_queue: the file after the save; a failure to open the file is
\* caught and leaves the file as it was
save_queue(q, file, ok) == IF ok THEN q ELSE file

\* clear_completed: self.queue afterwards
clear_completed_all_finished(q) ==
    SelectSeq(q, LAMBDA f : f.status \in {"pending", "in_progress"})

clear_completed(q) == SelectSeq(q, LAMBDA f : f.status # "completed")

\* export_pending_to_csv: the rows of the CSV; each row is the 'Form URL'
\* and the 'Status' of a pending entry
export_rows(q) ==
    LET pending == get_pending_forms(q)
    IN  [i \in DOMAIN pending |->
            [form_url |-> pending[i].form_url, status |-> pending[i].status]]

NoCall == [op |-> "none"]

(***************************************************************************)
(* FormSubmitter.                                                          *)
(***************************************************************************)
MAX_RETRIES == 3
RETRY_DELAY_BASE == 5
RETRY_BACKOFF_MULTIPLIER == 2
RETRYABLE_STATUS_CODES == {408, 429, 500, 502, 503, 504}
RETRYABLE_ERRORS_any_exception ==
    {"Timeout", "ConnectionError", "HTTPError", "ValueError"}

RETRYABLE_ERRORS == {"Timeout", "ConnectionError", "HTTPError"}

NewSubmissionResult_succeeded ==
    [success |-> TRUE, error |-> <<>>, response_status |-> 0,
     retry_count |-> 0, retry_errors |-> <<>>,
     verification_confidence |-> 0, submission_method |-> "standard",
     csrf_used |-> FALSE, multi_step |-> FALSE]

\* SubmissionResult(False, form_url)
NewSubmissionResult ==
    [success |-> FALSE, error |-> <<>>, response_status |-> 0,
     retry_count |-> 0, retry_errors |-> <<>>,
     verification_confidence |-> 0, submission_method |-> "standard",
     csrf_used |-> FALSE, multi_step |-> FALSE]

\* An optional value is a sequence of length 0 or 1.
NoResponse == <<>>

\* the response a transport hands back: the destination's answer o.resp as
\* seen from the form URL it was sent to
Received(o, furl) ==
    [status |-> o.resp.status,
     url |-> [base |-> furl.base, path |-> o.resp.path],
     body |-> o.resp.body, form |-> o.resp.form,
     unreadable |-> o.resp.unreadable]

\* requests.Response.__bool__ is Response.ok, which is False for a status
\* of 400 and above; a MockResponse is always true and always carries 200
Truthy(r) == ~(400 <= r.status /\ r.status < 600)

\* MockResponse: the browser reports status 200 for whatever page it ends on
MockResponse(o, furl) == [Received(o, furl) EXCEPT !.status = 200]

\* _try_browser_submit: a response or None, never an exception
try_browser_submit(o, furl, method) ==
    IF o.browser = "ok"
    THEN [kind |-> "response", response |-> <<MockResponse(o, furl)>>,
          method |-> "browser", transports |-> <<"browser">>,
          produced |-> << <<MockResponse(o, furl)>> >>]
    ELSE [kind |-> "none", response |-> NoResponse,
          method |-> method, transports |-> <<"browser">>,
          produced |-> <<NoResponse>>]

\* The standard POST/GET and what follows its failure.
standard_submit_never_browser(o, furl, method, fallback) ==
    IF o.standard = "ok"
    THEN [kind |-> "response", response |-> <<Received(o, furl)>>,
          method |-> method, transports |-> <<"standard">>,
          produced |-> << <<Received(o, furl)>> >>,
          raised |-> <<>>]
    ELSE [kind |-> o.standard, response |-> NoResponse,
          method |-> method, transports |-> <<"standard">>,
          produced |-> <<NoResponse>>,
          raised |-> <<o.standard>>]

standard_submit(o, furl, method, fallback) ==
    IF o.standard = "ok"
    THEN [kind |-> "response", response |-> <<Received(o, furl)>>,
          method |-> method, transports |-> <<"standard">>,
          produced |-> << <<Received(o, furl)>> >>,
          raised |-> <<>>]
    ELSE IF fallback
    THEN LET b == try_browser_submit(o, furl, method)
         IN  [b EXCEPT !.transports = <<"standard">> \o b.transports,
                       !.produced = <<NoResponse>> \o b.produced]
             @@ [raised |-> <<o.standard>>]
    ELSE [kind |-> o.standard, response |-> NoResponse,
          method |-> method, transports |-> <<"standard">>,
          produced |-> <<NoResponse>>,
          raised |-> <<o.standard>>]

\* _intelligent_submit on page under the destination behaviour o.  Yields
\* kind "response" | "none" | an exception name, the response, the
\* submission_method / csrf_used / multi_step it leaves in the result, the
\* CSRF tokens it put into the payload, the transports it dispatched, what
\* each of them produced and the exceptions they raised.
intelligent_submit(page, o, furl, fallback, method0) ==
    LET csrf_tokens == IF page.hidden THEN {page.token} ELSE {}
        m1 == IF csrf_tokens # {} THEN "csrf" ELSE method0
        m2 == IF page.multi_step THEN "multi_step" ELSE m1
        m3 == IF page.ajax THEN "ajax" ELSE m2
        tryMulti == page.multi_step /\ fallback
        tMulti == IF tryMulti THEN <<"multi_step">> ELSE <<>>
        tAjax == IF page.ajax THEN <<"ajax">> ELSE <<>>
        pMulti == IF tryMulti THEN <<NoResponse>> ELSE <<>>
        pAjax == IF ~page.ajax THEN <<>>
                 ELSE IF o.ajax = "ok" THEN << <<Received(o, furl)>> >>
                 ELSE <<NoResponse>>
        flags == [csrf_used |-> csrf_tokens # {},
                  multi_step |-> page.multi_step,
                  sent_tokens |-> csrf_tokens]
    IN  IF tryMulti /\ o.multi = "ok"
        THEN flags @@ [kind |-> "response",
                       response |-> <<MockResponse(o, furl)>>,
                       method |-> m2, transports |-> tMulti,
                       produced |-> << <<MockResponse(o, furl)>> >>,
                       raised |-> <<>>]
        ELSE IF page.ajax /\ o.ajax = "ok" /\ Truthy(Received(o, furl))
        THEN flags @@ [kind |-> "response",
                       response |-> <<Received(o, furl)>>,
                       method |-> m3, transports |-> tMulti \o tAjax,
                       produced |-> pMulti \o pAjax,
                       raised |-> <<>>]
        ELSE LET st == standard_submit(o, furl, m3, fallback)
             IN  flags @@ [st EXCEPT !.transports = tMulti \o tAjax \o @,
                                     !.produced = pMulti \o pAjax \o @]

\* while attempt <= self.MAX_RETRIES
while_condition_off_by_one(att) == att <= MAX_RETRIES + 1

while_condition(att) == att <= MAX_RETRIES

\* RETRY_DELAY_BASE * (RETRY_BACKOFF_MULTIPLIER ** (attempt - 1))
retry_delay_linear(att) == RETRY_DELAY_BASE * att

retry_delay(att) ==
    RETRY_DELAY_BASE * Pow(RETRY_BACKOFF_MULTIPLIER, att - 1)

\* what one pass through the body of the retry loop decides once
\* _intelligent_submit has ended as `is`
\*   again: the pass ends in `attempt += 1; continue`
\*   abort: the pass ends in the non-retryable handler
\*   otherwise the pass returns the response
attempt_pass(is, furl, att, best_conf) ==
    LET got == is.kind = "response" /\ Truthy(is.response[1])
        r == is.response[1]
        v == verify_submission(r, furl)
        retryStatus == got /\ r.status \in RETRYABLE_STATUS_CODES
        verified == got /\ ~retryStatus /\ r.status = 200
        lowConf == verified /\ v.confidence < 30 /\ att < MAX_RETRIES
        silent == is.kind \in {"response", "none"} /\ ~got
    IN  [verified |-> verified,
         newBest |-> verified /\ v.confidence > best_conf,
         confidence |-> IF verified THEN v.confidence ELSE 0,
         again |-> retryStatus \/ lowConf \/ silent
                   \/ is.kind \in RETRYABLE_ERRORS,
         abort |-> is.kind \notin {"response", "none"}
                   /\ is.kind \notin RETRYABLE_ERRORS,
         error_msg |->
            IF retryStatus THEN <<[msg |-> "HTTP (retryable)", n |-> r.status]>>
            ELSE IF lowConf
            THEN <<[msg |-> "Low verification confidence", n |-> v.confidence]>>
            ELSE IF silent THEN <<[msg |-> "No response", n |-> 0]>>
            ELSE IF is.kind \in RETRYABLE_ERRORS THEN <<[msg |-> is.kind, n |-> 0]>>
            ELSE IF is.kind \notin {"response", "none"}
            THEN <<[msg |-> "Non-retryable", n |-> 0]>>
            ELSE <<>>]

\* The behaviours of the destination that page can tell apart: o.resp is
\* its answer to a request that gets through, and multi, ajax, standard and
\* browser say which transports get through.  A transport that is not
\* reached is listed once, as failing, and so is the answer when nothing
\* gets through.
Outcomes(page, e, fallback) ==
    LET multis == IF page.multi_step /\ fallback THEN e.transport ELSE {"fail"}
        ajaxes == IF page.ajax THEN e.transport ELSE {"fail"}
        browsers == IF fallback THEN e.transport ELSE {"fail"}
        anyResp == CHOOSE r \in e.responses : TRUE
    IN  [resp : e.responses, multi : multis \cap {"ok"}, ajax : {"fail"},
         standard : {"Timeout"}, browser : {"fail"}]
        \cup
        [resp : e.responses, multi : multis \cap {"fail"},
         ajax : ajaxes \cap {"ok"}, standard : e.standard,
         browser : browsers]
        \cup
        [resp : e.responses, multi : multis \cap {"fail"},
         ajax : ajaxes \cap {"fail"}, standard : {"ok"}, browser : {"fail"}]
        \cup
        [resp : e.responses, multi : multis \cap {"fail"},
         ajax : ajaxes \cap {"fail"}, standard : e.standard \ {"ok"},
         browser : browsers \cap {"ok"}]
        \cup
        [resp : {anyResp}, multi : multis \cap {"fail"},
         ajax : ajaxes \cap {"fail"}, standard : e.standard \ {"ok"},
         browser : browsers \cap {"fail"}]

\* the last two submission times of a site, after one more at time t
Dispatched(d, base, t) ==
    [d EXCEPT ![base] = IF Len(@) < 2 THEN Append(@, t) ELSE <<@[2], t>>]

\* One pass of the while loop of _submit_with_retry_and_intelligence, and
\* the loop's exit when the pass used up the last attempt.
Attempt ==
    /\ pc = "retry"
    /\ while_condition(attempt)
    /\ \E o \in Outcomes(html_content, env, use_browser_fallback) :
       \E is \in {intelligent_submit(
                     html_content, o, form_url, use_browser_fallback,
                     submission_result.submission_method)} :
       \E p \in {attempt_pass(is, form_url, attempt, best_confidence)} :
         LET delay == IF attempt > 0 THEN retry_delay(attempt) ELSE 0
             byBrowser == is.kind = "response"
                          /\ is.transports[Len(is.transports)] = "browser"
             best == IF p.newBest THEN is.response ELSE best_response
             exhausted == p.again /\ ~while_condition(attempt + 1)
         IN  /\ now' = now + delay
             /\ submission_result' =
                  [submission_result EXCEPT
                     !.retry_count = IF attempt > 0 THEN attempt ELSE @,
                     !.submission_method = is.method,
                     !.csrf_used = @ \/ is.csrf_used,
                     !.multi_step = @ \/ is.multi_step,
                     !.response_status = IF byBrowser THEN 200 ELSE @,
                     !.retry_errors = @ \o p.error_msg]
             /\ best_response' = best
             /\ best_confidence' =
                    IF p.newBest THEN p.confidence ELSE best_confidence
             /\ attempt' = IF p.again THEN attempt + 1 ELSE attempt
             /\ response' = IF p.again \/ p.abort
                            THEN (IF exhausted \/ p.abort
                                  THEN best ELSE response)
                            ELSE is.response
             /\ pc' = IF p.again /\ ~exhausted THEN "retry" ELSE "verify"
             /\ dispatches' = Dispatched(dispatches, form_url.base, now + delay)
             /\ log' = [log EXCEPT
                    !.engine_calls = @ + 1,
                    !.sleeps = IF attempt > 0 THEN Append(@, delay) ELSE @,
                    !.sent_tokens = Append(@, is.sent_tokens),
                    !.transports = is.transports,
                    !.raised = is.raised,
                    !.produced = is.produced,
                    !.received = Append(@, is.response),
                    !.verified = IF p.verified
                                 THEN @ \cup {is.response[1]} ELSE @]
    /\ UNCHANGED <<calls, form_url, fetch_attempt, html_content, result,
                   queue, last_submission_times, use_browser_fallback,
                   server_fetches, env, caller, calcIn, calcOut>>
    /\ UNCHANGED <<locatorVars, queueVars, sinkVars, verifierVars,
                   bulkVars, writerVars>>

\* The rest of submit_form once the retry loop has returned.
SubmitFormReturn ==
    /\ pc = "verify"
    /\ LET v == verify_submission(response[1], form_url)
       IN  submission_result' =
             IF response # NoResponse /\ Truthy(response[1])
             THEN [submission_result EXCEPT
                     !.response_status = response[1].status,
                     !.success = v.success,
                     !.verification_confidence = v.confidence]
             ELSE submission_result
    /\ pc' = IF caller = "submit_inquiry" THEN "throttle" ELSE "returned"
    /\ UNCHANGED <<now, calls, form_url, fetch_attempt, html_content, result,
                   attempt, best_response, best_confidence, response, queue,
                   last_submission_times, use_browser_fallback,
                   server_fetches, env, caller, dispatches, log, calcIn,
                   calcOut>>
    /\ UNCHANGED <<locatorVars, queueVars, sinkVars, verifierVars,
                   bulkVars, writerVars>>

(***************************************************************************)
(* FormSubmissionPipeline and FormSubmissionService.                       *)
(***************************************************************************)
throttle_per_site == 2
max_fetch_retries == 3

MaxCalls == 2

Bases == {u.base : u \in FormUrls}

PlainPage ==
    [form |-> TRUE, markers |-> {}, action |-> TRUE, required |-> 2,
     key_field |-> TRUE, script |-> "standard", hidden |-> FALSE,
     multi_step |-> FALSE, ajax |-> FALSE, token |-> 0]

NoPage == [PlainPage EXCEPT !.form = FALSE]

NewResult == [submission_status |-> None, captcha_queued |-> FALSE,
              error |-> None]

NewLog == [fetches |-> 0, analyzer_calls |-> 0,
           engine_calls |-> 0, sleeps |-> <<>>, sent_tokens |-> <<>>,
           transports |-> <<>>, received |-> <<>>, verified |-> {},
           raised |-> <<>>, produced |-> <<>>, queue_before |-> <<>>]

\* _log_submission: the lines of the log file afterwards, and whether the
\* call raised; a failure to write is caught and logged
log_submission_uncaught(logf, line, ok) ==
    [lines |-> IF ok THEN Append(logf, line) ELSE logf, raised |-> ~ok]

log_submission(logf, line, ok) ==
    [lines |-> IF ok THEN Append(logf, line) ELSE logf, raised |-> FALSE]

\* _log_to_database: the rows afterwards; a failure is caught and logged
log_to_database(rows, row, ok) == IF ok THEN Append(rows, row) ELSE rows

\* submit_inquiry(form_url = u, ...) up to its fetch loop
StartInquiry(u) ==
    /\ form_url' = u
    /\ calls' = calls + 1
    /\ pc' = "fetch"
    /\ fetch_attempt' = 0
    /\ html_content' = NoPage
    /\ result' = NewResult
    /\ submission_result' = NewSubmissionResult
    /\ attempt' = 0
    /\ best_response' = NoResponse
    /\ best_confidence' = 0
    /\ response' = NoResponse
    /\ caller' = "submit_inquiry"
    /\ log' = [NewLog EXCEPT !.queue_before = queue]
    /\ submission_log' = <<>>
    /\ db_log' = <<>>
    /\ raised' = FALSE
    /\ UNCHANGED <<queue, last_submission_times, use_browser_fallback,
                   server_fetches, env, dispatches, calcIn, calcOut>>
    /\ UNCHANGED <<locatorVars, queueVars, verifierVars, writerVars>>

\* a call of submit_inquiry by a client of the service
SubmitInquiry ==
    /\ pc = "idle"
    /\ calls < MaxCalls
    /\ \E u \in FormUrls : StartInquiry(u)
    /\ UNCHANGED <<now, bulkVars>>

\* while fetch_attempt < max_fetch_retries
fetch_loop_condition_once_more(n) == n <= max_fetch_retries

fetch_loop_condition(n) == n < max_fetch_retries

\* One pass of the fetch loop of submit_inquiry; after the last failure,
\* the fetch_error return, which logs the result and then, in the finally
\* clause, logs it again.
FetchPage ==
    /\ pc = "fetch"
    /\ fetch_loop_condition(fetch_attempt)
    /\ log' = [log EXCEPT !.fetches = @ + 1]
    /\ \/ \E page \in env.pages :
            /\ html_content' =
                 [page EXCEPT !.token = IF page.hidden
                                        THEN server_fetches + 1 ELSE 0]
            /\ server_fetches' = server_fetches + 1
            /\ pc' = "pipeline"
            /\ UNCHANGED <<now, fetch_attempt, result, sinkVars>>
       \/ /\ env.fetch_fails
          /\ now' = IF fetch_attempt < max_fetch_retries - 1
                    THEN now + Pow(2, fetch_attempt) ELSE now
          /\ fetch_attempt' = fetch_attempt + 1
          /\ IF fetch_loop_condition(fetch_attempt + 1)
             THEN UNCHANGED <<pc, result, sinkVars>>
             ELSE /\ pc' = "idle"
                  /\ result' = [result EXCEPT
                                  !.submission_status = "fetch_error",
                                  !.error = "Could not fetch form"]
                  /\ \E ok1 \in env.log_writes, ok2 \in env.log_writes :
                        LET first == log_submission(submission_log,
                                                    "fetch_error", ok1)
                            last == log_submission(first.lines,
                                                   "fetch_error", ok2)
                        IN  /\ submission_log' = last.lines
                            /\ raised' = (first.raised \/ last.raised)
                  /\ UNCHANGED db_log
          /\ UNCHANGED <<html_content, server_fetches>>
    /\ UNCHANGED <<calls, form_url, submission_result, attempt,
                   best_response, best_confidence, response, queue,
                   last_submission_times, use_browser_fallback, env, caller,
                   dispatches, calcIn, calcOut>>
    /\ UNCHANGED <<locatorVars, queueVars, verifierVars, bulkVars, writerVars>>

\* Step 2 of submit_to_form: if analysis.has_captcha
captcha_blocks_checkbox_only(analysis) ==
    analysis.has_captcha /\ analysis.captcha_type = "recaptcha_v2"

captcha_blocks(analysis) == analysis.has_captcha

\* FormSubmissionPipeline.submit_to_form up to its call of submit_form.
\* When the pipeline raises, submit_inquiry catches the exception, sets
\* submission_status 'error' and returns through the finally clause.
SubmitToForm ==
    /\ pc = "pipeline"
    /\ \/ /\ LET analysis == analyze(html_content)
             IN  IF ~analysis.found
                 THEN /\ submission_result' =
                           [NewSubmissionResult EXCEPT !.error = AnalyzeError]
                      /\ pc' = "throttle"
                 ELSE IF captcha_blocks(analysis)
                 THEN /\ submission_result' =
                           [NewSubmissionResult EXCEPT
                              !.error = CaptchaError(analysis.captcha_type)]
                      /\ pc' = "throttle"
                 ELSE /\ submission_result' = NewSubmissionResult
                      /\ pc' = "retry"
          /\ log' = [log EXCEPT !.analyzer_calls = @ + 1]
          /\ UNCHANGED <<result, sinkVars>>
       \/ /\ env.pipeline_raises
          /\ result' = [result EXCEPT !.submission_status = "error",
                                      !.error = "exception"]
          /\ \E ok \in env.log_writes :
                LET logged == log_submission(submission_log, "error", ok)
                IN  /\ submission_log' = logged.lines
                    /\ raised' = logged.raised
          /\ pc' = "idle"
          /\ UNCHANGED <<submission_result, db_log, log>>
    /\ UNCHANGED <<now, calls, form_url, fetch_attempt, html_content,
                   attempt, best_response, best_confidence, response, queue,
                   last_submission_times, use_browser_fallback,
                   server_fetches, env, caller, dispatches, calcIn,
                   calcOut>>
    /\ UNCHANGED <<locatorVars, queueVars, verifierVars, bulkVars, writerVars>>

\* _apply_throttle: the sleep it makes at time t for site base
throttle_wait(last, base, t) ==
    IF last[base] >= 0 /\ t - last[base] < throttle_per_site
    THEN throttle_per_site - (t - last[base])
    ELSE 0

\* submit_inquiry after the pipeline has returned: the throttle, the
\* CAPTCHA branch, the database row, the return of the result and the log
\* line written in the finally clause
FinishInquiry ==
    /\ pc = "throttle"
    /\ \E saved \in env.saves, db_ok \in env.db_writes,
          log_ok \in env.log_writes :
       LET base == form_url.base
           wait == throttle_wait(last_submission_times, base, now)
           error == submission_result.error
           status == IF IsCaptchaError(error) THEN "captcha_blocked"
                     ELSE IF submission_result.success THEN "success"
                     ELSE "failed"
           logged == log_submission(submission_log, status, log_ok)
       IN  /\ now' = now + wait
           /\ last_submission_times' =
                  [last_submission_times EXCEPT ![base] = now + wait]
           /\ IF IsCaptchaError(error)
              THEN /\ queue' = add_form(queue, form_url, form_url,
                                        ExtractCaptchaType(error))
                   /\ queue_file' = save_queue(queue', queue_file, saved)
                   /\ result' = [submission_status |-> status,
                                 captcha_queued |-> TRUE,
                                 error |-> "CAPTCHA detected"]
              ELSE /\ UNCHANGED <<queue, queue_file>>
                   /\ result' = [result EXCEPT !.submission_status = status]
           /\ db_log' = log_to_database(db_log, status, db_ok)
           /\ submission_log' = logged.lines
           /\ raised' = logged.raised
    /\ pc' = "idle"
    /\ UNCHANGED <<calls, form_url, fetch_attempt, html_content,
                   submission_result, attempt, best_response, best_confidence,
                   response, use_browser_fallback, server_fetches, env,
                   caller, dispatches, log, calcIn, calcOut>>
    /\ UNCHANGED <<locatorVars, exported, last_call, verifierVars,
                   bulkVars, writerVars>>

(***************************************************************************)
(* The destination.  A response template is [status, path, body, form,     *)
(* unreadable]; Received resolves it against the form URL.                 *)
(***************************************************************************)
Resp(status, path, body, form) ==
    [status |-> status, path |-> path, body |-> body, form |-> form,
     unreadable |-> FALSE]

RespDone == Resp(200, "/contact/thanks", {"soushin_kanryou"}, FALSE)
RespHalf == Resp(200, "/contact/submit", {"thank you"}, FALSE)
RespError == Resp(200, "/contact", {"error"}, FALSE)
RespSameForm == Resp(200, "/contact", {}, TRUE)
RespRejected == Resp(200, "/contact", {"error", "required"}, FALSE)
RespUnreadable == [RespDone EXCEPT !.unreadable = TRUE]
RespStatus(status) == Resp(status, "/contact", {"error"}, FALSE)

AllResponses ==
    {RespDone, RespHalf, RespError, RespSameForm, RespRejected,
     RespUnreadable, RespStatus(201), RespStatus(404)}
    \cup {RespStatus(st) : st \in {429, 500, 503}}

RetryEnv ==
    [responses |-> AllResponses,
     transport |-> {"ok", "fail"},
     standard |-> {"ok", "Timeout", "ValueError"},
     pages |-> {},
     fetch_fails |-> FALSE,
     saves |-> {TRUE}, log_writes |-> {TRUE}, db_writes |-> {TRUE},
     pipeline_raises |-> FALSE]

ServiceEnv ==
    [responses |-> {RespDone, RespError, RespStatus(503)},
     transport |-> {"ok"},
     standard |-> {"ok"},
     pages |-> {NoPage, PlainPage, [PlainPage EXCEPT !.hidden = TRUE]}
               \cup {[PlainPage EXCEPT !.markers = {CaptchaTypes[i]}] :
                        i \in 1..Len(CaptchaTypes)},
     fetch_fails |-> TRUE,
     saves |-> {TRUE}, log_writes |-> {TRUE}, db_writes |-> {TRUE},
     pipeline_raises |-> FALSE]

\* a destination and sinks that can fail: the log file and the database
\* may refuse a write and the pipeline may raise
SinkEnv ==
    [responses |-> {RespDone, RespSameForm},
     transport |-> {"ok"},
     standard |-> {"ok"},
     pages |-> {NoPage, PlainPage,
                [PlainPage EXCEPT !.markers = {"recaptcha_v2"}]},
     fetch_fails |-> TRUE,
     saves |-> {TRUE}, log_writes |-> BOOLEAN, db_writes |-> BOOLEAN,
     pipeline_raises |-> TRUE]

\* a plain form, one with a hidden CSRF input, and one that also shows
\* multi-step and AJAX signals
RetryPages ==
    {PlainPage,
     [PlainPage EXCEPT !.hidden = TRUE, !.token = 1],
     [PlainPage EXCEPT !.hidden = TRUE, !.token = 1, !.multi_step = TRUE,
                       !.ajax = TRUE]}

NoCalc == [kind |-> "none"]

\* a detector that has been constructed and has not been called yet
NoSite == [pages |-> <<>>, disallowed |-> {}]

NoBulk == [total |-> 0, i |-> 0]

NoCrawl == [cap |-> 0, to_visit |-> <<>>, found |-> <<>>]

NoManagers == <<>>

NoHistory == [verified |-> {}, saved |-> {}]

LocatorIdle ==
    /\ site = NoSite
    /\ tiers = <<>>
    /\ probes = <<>>
    /\ visited_urls = {}
    /\ detection = <<>>
    /\ crawl = NoCrawl

\* a service that has been constructed and has not been called yet
Init ==
    /\ pc = "idle"
    /\ now = 0
    /\ calls = 0
    /\ form_url = CHOOSE u \in FormUrls : u.base = "https://example.jp"
    /\ fetch_attempt = 0
    /\ html_content = NoPage
    /\ result = NewResult
    /\ submission_result = NewSubmissionResult
    /\ attempt = 0
    /\ best_response = NoResponse
    /\ best_confidence = 0
    /\ response = NoResponse
    /\ queue = <<>>
    /\ last_submission_times = [b \in Bases |-> 0 - 1]
    /\ use_browser_fallback = TRUE
    /\ server_fetches = 0
    /\ env = ServiceEnv
    /\ caller = "submit_inquiry"
    /\ dispatches = [b \in Bases |-> <<>>]
    /\ log = NewLog
    /\ calcIn = NoCalc
    /\ calcOut = <<>>
    /\ LocatorIdle
    /\ queue_file = <<>>
    /\ exported = <<>>
    /\ last_call = NoCall
    /\ submission_log = <<>>
    /\ db_log = <<>>
    /\ raised = FALSE
    /\ history = NoHistory
    /\ bulk = NoBulk
    /\ managers = NoManagers

Next == SubmitInquiry \/ FetchPage \/ SubmitToForm \/ Attempt
        \/ SubmitFormReturn \/ FinishInquiry

Spec == Init /\ [][Next]_vars

\* the same service on sinks that can fail
InitSinks ==
    /\ pc = "idle"
    /\ now = 0
    /\ calls = 0
    /\ form_url = CHOOSE u \in FormUrls : u.base = "https://example.jp"
    /\ fetch_attempt = 0
    /\ html_content = NoPage
    /\ result = NewResult
    /\ submission_result = NewSubmissionResult
    /\ attempt = 0
    /\ best_response = NoResponse
    /\ best_confidence = 0
    /\ response = NoResponse
    /\ queue = <<>>
    /\ last_submission_times = [b \in Bases |-> 0 - 1]
    /\ use_browser_fallback = TRUE
    /\ server_fetches = 0
    /\ env = SinkEnv
    /\ caller = "submit_inquiry"
    /\ dispatches = [b \in Bases |-> <<>>]
    /\ log = NewLog
    /\ calcIn = NoCalc
    /\ calcOut = <<>>
    /\ LocatorIdle
    /\ queue_file = <<>>
    /\ exported = <<>>
    /\ last_call = NoCall
    /\ submission_log = <<>>
    /\ db_log = <<>>
    /\ raised = FALSE
    /\ history = NoHistory
    /\ bulk = NoBulk
    /\ managers = NoManagers

SpecSinks == InitSinks /\ [][Next]_vars

\* a destination that answers every submission with a 2xx response of low
\* verification confidence
AmbiguousEnv ==
    [responses |-> {RespError, RespSameForm, RespStatus(201)},
     transport |-> {"ok"},
     standard |-> {"ok"},
     pages |-> {PlainPage},
     fetch_fails |-> FALSE,
     saves |-> {TRUE}, log_writes |-> {TRUE}, db_writes |-> {TRUE},
     pipeline_raises |-> FALSE]

InitAmbiguous ==
    /\ pc = "idle"
    /\ now = 0
    /\ calls = 0
    /\ form_url = CHOOSE u \in FormUrls : u.base = "https://example.jp"
    /\ fetch_attempt = 0
    /\ html_content = NoPage
    /\ result = NewResult
    /\ submission_result = NewSubmissionResult
    /\ attempt = 0
    /\ best_response = NoResponse
    /\ best_confidence = 0
    /\ response = NoResponse
    /\ queue = <<>>
    /\ last_submission_times = [b \in Bases |-> 0 - 1]
    /\ use_browser_fallback = TRUE
    /\ server_fetches = 0
    /\ env = AmbiguousEnv
    /\ caller = "submit_inquiry"
    /\ dispatches = [b \in Bases |-> <<>>]
    /\ log = NewLog
    /\ calcIn = NoCalc
    /\ calcOut = <<>>
    /\ LocatorIdle
    /\ queue_file = <<>>
    /\ exported = <<>>
    /\ last_call = NoCall
    /\ submission_log = <<>>
    /\ db_log = <<>>
    /\ raised = FALSE
    /\ history = NoHistory
    /\ bulk = NoBulk
    /\ managers = NoManagers

SpecAmbiguous == InitAmbiguous /\ [][Next]_vars

\* FormSubmitter.submit_form called on a fetched, CAPTCHA-free form page
InitRetry ==
    /\ pc = "retry"
    /\ now = 0
    /\ calls = 0
    /\ form_url = CHOOSE u \in FormUrls : u.base = "https://example.jp"
    /\ fetch_attempt = 0
    /\ html_content \in RetryPages
    /\ result = NewResult
    /\ submission_result = NewSubmissionResult
    /\ attempt = 0
    /\ best_response = NoResponse
    /\ best_confidence = 0
    /\ response = NoResponse
    /\ queue = <<>>
    /\ last_submission_times = [b \in Bases |-> 0 - 1]
    /\ use_browser_fallback \in BOOLEAN
    /\ server_fetches = 1
    /\ env = RetryEnv
    /\ caller = "submit_form"
    /\ dispatches = [b \in Bases |-> <<>>]
    /\ log = NewLog
    /\ calcIn = NoCalc
    /\ calcOut = <<>>
    /\ LocatorIdle
    /\ queue_file = <<>>
    /\ exported = <<>>
    /\ last_call = NoCall
    /\ submission_log = <<>>
    /\ db_log = <<>>
    /\ raised = FALSE
    /\ history = NoHistory
    /\ bulk = NoBulk
    /\ managers = NoManagers

NextRetry == Attempt \/ SubmitFormReturn

SpecRetry == InitRetry /\ [][NextRetry]_vars

(***************************************************************************)
(* The three scoring functions on their own: the initial state draws an    *)
(* input and the action of its kind applies the function to it.            *)
(***************************************************************************)
MaxRequired == 5
MaxKeywords == 5

VerifierInputs ==
    [status : {200, 201, 302, 404, 500}, path : ResponsePaths,
     body : SUBSET Vocabulary, form : BOOLEAN, unreadable : BOOLEAN]

AnalyzerInputs ==
    [form_action : BOOLEAN, required : 0..MaxRequired, key_field : BOOLEAN,
     has_captcha : BOOLEAN,
     submission_type : {"standard", "ajax", "javascript"}, hidden : BOOLEAN]

CandidateInputs ==
    [has_email_field : BOOLEAN, has_message_field : BOOLEAN,
     has_name_field : BOOLEAN, has_phone_field : BOOLEAN,
     has_company_field : BOOLEAN, has_subject_field : BOOLEAN,
     text_fields : 0..1, textareas : 0..1, keywords_found : 0..MaxKeywords,
     contact_url : BOOLEAN, submit_button : BOOLEAN,
     form_method : {"POST", "GET"}, required_fields : {0, 2},
     detection_method : {"top_priority_fallback", "site_crawl", "form_tag"}]

InitScoring ==
    /\ pc = "score"
    /\ now = 0
    /\ calls = 0
    /\ form_url = CHOOSE u \in FormUrls : u.base = "https://example.jp"
    /\ fetch_attempt = 0
    /\ html_content = NoPage
    /\ result = NewResult
    /\ submission_result = NewSubmissionResult
    /\ attempt = 0
    /\ best_response = NoResponse
    /\ best_confidence = 0
    /\ response = NoResponse
    /\ queue = <<>>
    /\ last_submission_times = [b \in Bases |-> 0 - 1]
    /\ use_browser_fallback = TRUE
    /\ server_fetches = 0
    /\ env = ServiceEnv
    /\ caller = "none"
    /\ dispatches = [b \in Bases |-> <<>>]
    /\ log = NewLog
    /\ calcIn \in [kind : {"verify"}, arg : VerifierInputs]
                  \cup [kind : {"analyze"}, arg : AnalyzerInputs]
                  \cup [kind : {"score"}, arg : CandidateInputs]
    /\ calcOut = <<>>
    /\ LocatorIdle
    /\ queue_file = <<>>
    /\ exported = <<>>
    /\ last_call = NoCall
    /\ submission_log = <<>>
    /\ db_log = <<>>
    /\ raised = FALSE
    /\ history = NoHistory
    /\ bulk = NoBulk
    /\ managers = NoManagers

Scored(out) ==
    /\ pc = "score"
    /\ calcOut = <<>>
    /\ calcOut' = <<out>>
    /\ pc' = "scored"
    /\ UNCHANGED <<now, calls, form_url, fetch_attempt, html_content, result,
                   submission_result, attempt, best_response, best_confidence,
                   response, queue, last_submission_times,
                   use_browser_fallback, server_fetches, env, caller,
                   dispatches, log, calcIn>>
    /\ UNCHANGED <<locatorVars, queueVars, sinkVars, verifierVars,
                   bulkVars, writerVars>>

\* SubmissionVerifier.verify_submission(response, form_data, original_url)
VerifySubmission ==
    /\ calcIn.kind = "verify"
    /\ Scored(verify_submission(
                 Received([resp |-> calcIn.arg], form_url), form_url))

\* FormAnalyzer._calculate_confidence(analysis)
CalculateConfidence ==
    /\ calcIn.kind = "analyze"
    /\ Scored([confidence |-> calculate_confidence(calcIn.arg)])

\* EnhancedContactFormDetector._score_candidates([candidate])
ScoreCandidates ==
    /\ calcIn.kind = "score"
    /\ Scored([confidence |-> score_candidate(calcIn.arg)])

NextScoring == VerifySubmission \/ CalculateConfidence \/ ScoreCandidates

SpecScoring == InitScoring /\ [][NextScoring]_vars

(***************************************************************************)
(* EnhancedContactFormDetector.detect_contact_form.                        *)
(*                                                                         *)
(* A URL of the site is written as its path (and query).  site.pages maps  *)
(* a URL to what a fetch of it returns: "missing" (no content or a status  *)
(* other than 200), "raises" (the fetcher raises an exception), "noform",  *)
(* "form" (a contact form) or "excluded" (a <form> that one of             *)
(* EXCLUDE_PATTERNS matches, such as a search form).                       *)
(* site.disallowed is the set of URLs robots.txt disallows.  A probe is    *)
(* [op, url, tier] with op "robots" or "fetch".                            *)
(***************************************************************************)
TOP_PRIORITY_FALLBACK_URLS ==
    <<"/contact", "/contact/", "/contact/mailform", "/contact/mailform/",
      "/contact/contact.html", "/contact/inquiry.html", "/inquiry",
      "/inquiry/">>

HIGH_PRIORITY_FALLBACK_URLS ==
    <<"/contact.html", "/contact.php", "/inquiry.html", "/inquiry.php",
      "/form", "/form.html">>

MEDIUM_PRIORITY_FALLBACK_URLS ==
    <<"/contact.htm", "/inquiry.htm", "/contact/index.html",
      "/contact/index.htm", "/inquiry/index.html", "/form.php",
      "/contact-us", "/contact_us", "/inquiry-form">>

\* the first entry stands for the path written in kanji
LOW_PRIORITY_FALLBACK_URLS ==
    <<"/otoiawase-ja", "/otoiawase", "/toiawase", "/contact.aspx",
      "/inquiry.aspx">>

max_pages == 15

RootUrl == "/"
ParamLink == "/index.php?page=contact"
DeepLink == "/company/ask"

\* the URLs on which the sites of the model differ
SiteUrls ==
    {RootUrl, "/inquiry/", "/contact.html", ParamLink,
     "/contact/index.html", "/otoiawase", DeepLink}

\* the <a href> elements of a page, in document order: query says that the
\* href holds a '?', contact that the link text holds a contact keyword or
\* the URL matches a contact pattern
Links(url) ==
    IF url = RootUrl
    THEN <<[url |-> ParamLink, query |-> TRUE, contact |-> TRUE],
           [url |-> DeepLink, query |-> FALSE, contact |-> TRUE],
           [url |-> "/about", query |-> FALSE, contact |-> FALSE]>>
    ELSE IF url = DeepLink
    THEN <<[url |-> RootUrl, query |-> FALSE, contact |-> FALSE],
           [url |-> "/inquiry/", query |-> FALSE, contact |-> TRUE]>>
    ELSE <<>>

\* fetcher.fetch_page(url), as the tiers read it
PageKind(st, url) ==
    IF url \in DOMAIN st.pages THEN st.pages[url] ELSE "missing"

\* the fetch yields no page: not content or status_code != 200, or the
\* except clause around the fetch is entered
FetchFails(st, url) == PageKind(st, url) \in {"missing", "raises"}

\* content and status_code == 200 and '<form' in content.lower()
HasFormTag(st, url) == PageKind(st, url) \in {"form", "excluded"}

\* robots_checker.is_allowed(url, "respect")
is_allowed(st, url) == url \notin st.disallowed

Probe(op, url, tier) == [op |-> op, url |-> url, tier |-> tier]

\* _try_fallback_list from entry i of the list on: the URL it returns, if
\* any, and the probes it makes
RECURSIVE try_fallback_list(_, _, _, _)
try_fallback_list(st, list, tier, i) ==
    IF i > Len(list) THEN [found |-> <<>>, probes |-> <<>>]
    ELSE LET url == list[i]
             rest == try_fallback_list(st, list, tier, i + 1)
             asked == <<Probe("robots", url, tier)>>
             got == <<Probe("fetch", url, tier)>>
         IN  IF ~is_allowed(st, url)
             THEN [rest EXCEPT !.probes = asked \o @]
             ELSE IF ~HasFormTag(st, url)
             THEN [rest EXCEPT !.probes = asked \o got \o @]
             ELSE [found |-> <<url>>, probes |-> asked \o got]

\* the features _analyze_page_forms finds on a contact form of the model
Candidate(url, detection_method) ==
    [url |-> url, has_email_field |-> TRUE, has_message_field |-> TRUE,
     has_name_field |-> TRUE, has_phone_field |-> FALSE,
     has_company_field |-> FALSE, has_subject_field |-> FALSE,
     text_fields |-> 1, textareas |-> 1, keywords_found |-> 0,
     contact_url |-> url \in {ParamLink, "/inquiry/", "/contact.html",
                               "/contact/index.html", "/otoiawase"},
     submit_button |-> TRUE, form_method |-> "POST", required_fields |-> 2,
     detection_method |-> detection_method]

\* _analyze_page_forms: the candidates of a page that holds a <form>
analyze_page_forms(st, url, detection_method) ==
    IF PageKind(st, url) = "form"
    THEN <<Candidate(url, detection_method)>> ELSE <<>>

\* candidates.sort(key=score, reverse=True)[0]: the first candidate of
\* highest score (the sort is stable)
BestCandidate(cands) ==
    LET best == CHOOSE i \in DOMAIN cands :
                   /\ \A j \in DOMAIN cands :
                         score_candidate(cands[j]) <= score_candidate(cands[i])
                   /\ \A j \in 1..(i - 1) :
                         score_candidate(cands[j]) < score_candidate(cands[i])
    IN  cands[best]

\* the loop of _check_parameter_links_on_homepage over the links from
\* entry i on: the candidates it collects and the fetches it makes
RECURSIVE scan_links(_, _, _)
scan_links(st, links, i) ==
    IF i > Len(links) THEN [candidates |-> <<>>, probes |-> <<>>]
    ELSE LET link == links[i]
             rest == scan_links(st, links, i + 1)
         IN  IF ~link.query \/ ~link.contact THEN rest
             ELSE [candidates |->
                      (IF HasFormTag(st, link.url)
                       THEN analyze_page_forms(st, link.url, "parameter_link")
                       ELSE <<>>) \o rest.candidates,
                   probes |->
                      <<Probe("fetch", link.url, "homepage")>> \o rest.probes]

\* _check_parameter_links_on_homepage
check_parameter_links_on_homepage(st) ==
    LET home == <<Probe("fetch", RootUrl, "homepage")>>
        scan == scan_links(st, Links(RootUrl), 1)
    IN  IF FetchFails(st, RootUrl)
        THEN [found |-> <<>>, probes |-> home]
        ELSE [found |-> IF scan.candidates # <<>>
                        THEN <<BestCandidate(scan.candidates).url>>
                        ELSE <<>>,
              probes |-> home \o scan.probes]

\* the <a href> elements of a page of the site: those of the site's own
\* link table when it has one
LinksOf(st, url) ==
    IF "links" \in DOMAIN st THEN st.links[url] ELSE Links(url)

\* _extract_priority_links: the links of the page that are not visited yet,
\* those with a contact URL or text first, then at most 5 of the others
extract_priority_links(st, url, visited) ==
    LET prio(l) == l.url \notin visited /\ l.contact
        norm(l) == l.url \notin visited /\ ~l.contact
        urls(ls) == [i \in DOMAIN ls |-> ls[i].url]
        normal == SelectSeq(LinksOf(st, url), norm)
    IN  urls(SelectSeq(LinksOf(st, url), prio))
        \o urls(SubSeq(normal, 1, Min(5, Len(normal))))

\* the loop of _crawl_and_find_forms ends: the while condition is false or
\* the break on the size of visited_urls is taken
crawl_exits_on_found_only(c, cap) ==
    \/ c.to_visit = <<>>
    \/ Len(c.found) >= cap

crawl_exits(c, cap) ==
    \/ c.to_visit = <<>>
    \/ Len(c.found) >= cap
    \/ Cardinality(c.visited) >= cap * 2

\* one pass of the while loop of _crawl_and_find_forms with max_pages = cap,
\* on the loop state c = [to_visit, visited, found, probes]
crawl_pass(st, c, cap) ==
    LET url == Head(c.to_visit)
        rest == Tail(c.to_visit)
        seen == c.visited \cup {url}
        asked == <<Probe("robots", url, "crawl")>>
        got == <<Probe("fetch", url, "crawl")>>
        found == IF HasFormTag(st, url)
                 THEN Append(c.found, url) ELSE c.found
        new == IF Len(found) < cap
               THEN extract_priority_links(st, url, seen) ELSE <<>>
    IN  IF url \in c.visited
        THEN [c EXCEPT !.to_visit = rest]
        ELSE IF ~is_allowed(st, url)
        THEN [c EXCEPT !.to_visit = rest, !.visited = seen,
                       !.probes = @ \o asked]
        ELSE IF FetchFails(st, url)
        THEN [c EXCEPT !.to_visit = rest, !.visited = seen,
                       !.probes = @ \o asked \o got]
        ELSE [to_visit |-> rest \o new, visited |-> seen,
              found |-> found, probes |-> c.probes \o asked \o got]

\* the while loop of _crawl_and_find_forms from the loop state c on
RECURSIVE crawl_and_find_forms(_, _)
crawl_and_find_forms(st, c) ==
    IF crawl_exits(c, max_pages) THEN c
    ELSE crawl_and_find_forms(st, crawl_pass(st, c, max_pages))

RECURSIVE CandidatesOf(_, _, _)
CandidatesOf(st, urls, i) ==
    IF i > Len(urls) THEN <<>>
    ELSE analyze_page_forms(st, urls[i], "site_crawl")
         \o CandidatesOf(st, urls, i + 1)

\* _crawl_site_for_forms
crawl_site_for_forms(st) ==
    LET c == crawl_and_find_forms(st,
                 [to_visit |-> <<RootUrl>>, visited |-> {}, found |-> <<>>,
                  probes |-> <<>>])
        candidates == CandidatesOf(st, c.found, 1)
    IN  [found |-> IF candidates # <<>>
                   THEN <<BestCandidate(candidates).url>> ELSE <<>>,
         probes |-> c.probes, visited |-> c.visited]

\* the order of the steps of detect_contact_form
TierOrder == <<"top", "high", "homepage", "medium", "low", "crawl">>

FallbackList(tier) ==
    CASE tier = "top"    -> TOP_PRIORITY_FALLBACK_URLS
      [] tier = "high"   -> HIGH_PRIORITY_FALLBACK_URLS
      [] tier = "medium" -> MEDIUM_PRIORITY_FALLBACK_URLS
      [] tier = "low"    -> LOW_PRIORITY_FALLBACK_URLS

\* what runs when the tier returned None
NextTier_crawl_before_paths(tier) ==
    IF tier = "top" THEN "crawl"
    ELSE IF tier = "crawl" THEN "high"
    ELSE IF tier = "low" THEN "detected"
    ELSE LET i == CHOOSE k \in DOMAIN TierOrder : TierOrder[k] = tier
         IN  TierOrder[i + 1]

NextTier(tier) ==
    LET i == CHOOSE k \in DOMAIN TierOrder : TierOrder[k] = tier
    IN  IF i < Len(TierOrder) THEN TierOrder[i + 1] ELSE "detected"

serviceVars ==
    <<now, calls, form_url, fetch_attempt, html_content, result,
      submission_result, attempt, best_response, best_confidence, response,
      queue, last_submission_times, use_browser_fallback, server_fetches,
      env, caller, dispatches, log, calcIn, calcOut>>

\* a step of detect_contact_form ends with r: return r.found if the tier
\* found a form, go on with the next tier otherwise, return form_url None
\* after the last tier
TierEnds(tier, r) ==
    /\ tiers' = Append(tiers, tier)
    /\ probes' = probes \o r.probes
    /\ IF r.found # <<>>
       THEN /\ detection' = <<[form_url |-> r.found, tier |-> tier]>>
            /\ pc' = "detected"
       ELSE /\ pc' = NextTier(tier)
            /\ detection' = IF NextTier(tier) = "detected"
                            THEN <<[form_url |-> <<>>, tier |-> "none"]>>
                            ELSE detection
    /\ UNCHANGED <<site, serviceVars, queueVars, sinkVars, verifierVars,
                   bulkVars, writerVars>>

\* steps 1, 2, 4 and 5: _try_fallback_list on the list of the tier
TryFallbackList ==
    /\ pc \in {"top", "high", "medium", "low"}
    /\ TierEnds(pc, try_fallback_list(site, FallbackList(pc), pc, 1))
    /\ UNCHANGED <<visited_urls, crawl>>

\* step 3: _check_parameter_links_on_homepage
CheckParameterLinks ==
    /\ pc = "homepage"
    /\ TierEnds(pc, check_parameter_links_on_homepage(site))
    /\ UNCHANGED <<visited_urls, crawl>>

\* step 6: _crawl_site_for_forms
CrawlSite ==
    /\ pc = "crawl"
    /\ \E r \in {crawl_site_for_forms(site)} :
          /\ TierEnds(pc, r)
          /\ visited_urls' = r.visited
          /\ UNCHANGED crawl

\* the sites of the model: what each of SiteUrls serves, and at most one
\* URL that robots.txt disallows
Sites ==
    {st \in [pages : [SiteUrls -> {"missing", "raises", "noform", "form",
                                   "excluded"}],
             disallowed : {{}} \cup {{u} : u \in {RootUrl, "/inquiry/",
                                                  ParamLink, DeepLink}}] :
        /\ st.pages[RootUrl] # "excluded"
        /\ \A u \in SiteUrls \ {RootUrl} : st.pages[u] # "noform"
        /\ \A u \in SiteUrls \ {RootUrl, ParamLink} : st.pages[u] # "raises"}

\* detect_contact_form(root_url) called on a fresh detector
InitLocator ==
    /\ pc = "top"
    /\ now = 0
    /\ calls = 0
    /\ form_url = CHOOSE u \in FormUrls : u.base = "https://example.jp"
    /\ fetch_attempt = 0
    /\ html_content = NoPage
    /\ result = NewResult
    /\ submission_result = NewSubmissionResult
    /\ attempt = 0
    /\ best_response = NoResponse
    /\ best_confidence = 0
    /\ response = NoResponse
    /\ queue = <<>>
    /\ last_submission_times = [b \in Bases |-> 0 - 1]
    /\ use_browser_fallback = TRUE
    /\ server_fetches = 0
    /\ env = ServiceEnv
    /\ caller = "none"
    /\ dispatches = [b \in Bases |-> <<>>]
    /\ log = NewLog
    /\ calcIn = NoCalc
    /\ calcOut = <<>>
    /\ site \in Sites
    /\ tiers = <<>>
    /\ probes = <<>>
    /\ visited_urls = {}
    /\ detection = <<>>
    /\ crawl = NoCrawl
    /\ queue_file = <<>>
    /\ exported = <<>>
    /\ last_call = NoCall
    /\ submission_log = <<>>
    /\ db_log = <<>>
    /\ raised = FALSE
    /\ history = NoHistory
    /\ bulk = NoBulk
    /\ managers = NoManagers

NextLocator == TryFallbackList \/ CheckParameterLinks \/ CrawlSite

SpecLocator == InitLocator /\ [][NextLocator]_vars

(***************************************************************************)
(* Properties.                                                             *)
(***************************************************************************)
Finished == pc = "idle" /\ result.submission_status # None

\* submit_inquiry has been called and no call is running
Returned == pc = "idle" /\ calls > 0

Confidence(r) == verify_submission(r, form_url).confidence

LastReceived == log.received[Len(log.received)]

\* C1: a form page on which the Analyzer sets has_captcha never reaches the
\* strategy engine: submit_to_form returns without _intelligent_submit being
\* invoked and without any transport being dispatched.
C1_CaptchaNeverReachesEngine ==
    analyze(html_content).has_captcha =>
        /\ pc \notin {"retry", "verify"}
        /\ log.engine_calls = 0
        /\ log.transports = <<>>

\* a submit_inquiry call on a CAPTCHA-positive page has returned
C1_Witness == Finished /\ analyze(html_content).has_captcha

\* C2: for every captcha type the Analyzer detects, submit_inquiry on a
\* CAPTCHA-positive form returns captcha_blocked with captcha_queued set,
\* and exactly one new entry for that form has been appended to the queue.
C2_CaptchaBlockedAndQueued ==
    (Finished /\ analyze(html_content).has_captcha) =>
        /\ result.submission_status = "captcha_blocked"
        /\ result.captcha_queued
        /\ Len(queue) = Len(log.queue_before) + 1
        /\ SubSeq(queue, 1, Len(log.queue_before)) = log.queue_before
        /\ queue[Len(queue)].form_url = form_url

\* C3: once retries are exhausted the retry loop returns the verified
\* response of highest confidence seen in the run, and returns None only if
\* no attempt produced a verified response.
C3_BestResponseReturned ==
    (pc = "verify" /\ log.engine_calls = MAX_RETRIES + 1) =>
        /\ response = NoResponse => log.verified = {}
        /\ log.verified # {} =>
              /\ response # NoResponse
              /\ response[1] \in log.verified
              /\ \A r \in log.verified :
                    Confidence(r) <= Confidence(response[1])

\* C4: in every state of a submit_form call retry_count is at most
\* MAX_RETRIES and the strategy engine has been invoked at most
\* MAX_RETRIES + 1 times; while the loop runs, the number of invocations made
\* equals the loop counter, so every pass brings the loop closer to its end.
C4_RetryBounded ==
    /\ submission_result.retry_count <= MAX_RETRIES
    /\ log.engine_calls <= MAX_RETRIES + 1
    /\ pc = "retry" => attempt <= MAX_RETRIES /\ log.engine_calls = attempt

\* all four attempts were made and ended in different ways
C4_Witness ==
    /\ pc = "returned"
    /\ log.engine_calls = MAX_RETRIES + 1
    /\ submission_result.retry_count = MAX_RETRIES
    /\ Cardinality({submission_result.retry_errors[i].msg :
                       i \in DOMAIN submission_result.retry_errors}) >= 3

\* C5: within one submission no CSRF token sent by an attempt is sent again
\* by a later attempt.
C5_FreshTokenPerAttempt ==
    \A i, j \in DOMAIN log.sent_tokens :
        i < j => log.sent_tokens[i] \cap log.sent_tokens[j] = {}

\* C6: any two consecutive submissions dispatched to the same site are at
\* least throttle_per_site seconds apart, the first and second included.
C6_ThrottleBetweenSubmissions ==
    \A b \in Bases :
        Len(dispatches[b]) = 2 =>
            dispatches[b][2] - dispatches[b][1] >= throttle_per_site

\* C7: every result of verify_submission has success = (confidence >= 0.30),
\* also when verification raises and the exception is caught.
C7_SuccessIffThreshold ==
    (calcIn.kind = "verify" /\ calcOut # <<>>) =>
        (calcOut[1].success <=> calcOut[1].confidence >= 30)

\* C8: the confidence the Verifier returns, the confidence the Analyzer
\* computes and the score the Locator gives a candidate all lie in [0,1].
C8_ConfidenceInUnitInterval ==
    calcOut # <<>> => calcOut[1].confidence \in 0..100

\* a verification whose points, before normalisation, fall below zero
C8_Witness ==
    /\ calcOut # <<>>
    /\ calcIn.kind = "verify"
    /\ ~calcIn.arg.unreadable
    /\ VerificationPoints(Received([resp |-> calcIn.arg], form_url),
                          form_url) < 0

\* C9: the loop sleeps nothing before the first attempt and
\* RETRY_DELAY_BASE * 2^(k-1) seconds before retry k; it makes no further
\* attempt once an attempt yields a status-200 response of confidence 0.30 or
\* more; and on [503, 503, 200 with confidence 0.5] it makes 3 attempts,
\* sleeps 5 s then 10 s and returns the 200 with retry_count = 2.
C9_Received503 == <<Received([resp |-> RespStatus(503)], form_url)>>
C9_ReceivedHalf == <<Received([resp |-> RespHalf], form_url)>>
C9_Scenario == log.received = <<C9_Received503, C9_Received503, C9_ReceivedHalf>>

C9_BackoffSchedule ==
    /\ Len(log.sleeps) = Max(log.engine_calls - 1, 0)
    /\ \A k \in DOMAIN log.sleeps :
          log.sleeps[k] = RETRY_DELAY_BASE * Pow(2, k - 1)
    /\ (/\ log.received # <<>>
        /\ LastReceived # NoResponse
        /\ LastReceived[1].status = 200
        /\ Confidence(LastReceived[1]) >= 30)
         => pc # "retry" /\ response = LastReceived
    /\ C9_Scenario =>
          /\ Confidence(C9_ReceivedHalf[1]) = 50
          /\ pc # "retry"
          /\ log.engine_calls = 3
          /\ log.sleeps = <<5, 10>>
          /\ response = C9_ReceivedHalf
          /\ submission_result.retry_count = 2

C9_Witness == pc = "returned" /\ C9_Scenario

\* C10: when every attempt returns a retryable HTTP status the loop makes
\* MAX_RETRIES + 1 attempts and returns None with retry_count = 3 and 4
\* retry_errors, and the SubmissionResult has success = false.
C10_AllRetryable ==
    /\ log.received # <<>>
    /\ \A i \in DOMAIN log.received :
          /\ log.received[i] # NoResponse
          /\ log.received[i][1].status \in RETRYABLE_STATUS_CODES

C10_RetryableExhausted ==
    (pc \in {"verify", "returned"} /\ C10_AllRetryable) =>
        /\ log.engine_calls = MAX_RETRIES + 1
        /\ response = NoResponse
        /\ submission_result.retry_count = 3
        /\ Len(submission_result.retry_errors) = 4
        /\ ~submission_result.success

C10_Witness == pc = "returned" /\ C10_AllRetryable


(***************************************************************************)
(* The CAPTCHA queue on its own: a manager on an empty queue file and any  *)
(* sequence of calls of its operations.                                    *)
(***************************************************************************)
MaxQueue == 3

\* the statuses the documentation of CaptchaForm and update_status names
DocumentedStatuses == {"pending", "in_progress", "completed", "failed"}

\* status arguments of update_status: a str, which nothing validates
StatusArguments == {"pending", "in_progress", "completed", "done"}

QueueFrame ==
    /\ pc' = pc
    /\ UNCHANGED <<now, calls, form_url, fetch_attempt, html_content, result,
                   submission_result, attempt, best_response, best_confidence,
                   response, last_submission_times, use_browser_fallback,
                   server_fetches, env, caller, dispatches, log, calcIn,
                   calcOut>>
    /\ UNCHANGED <<locatorVars, sinkVars, verifierVars, bulkVars, writerVars>>

\* CaptchaQueueManager.add_form(url, form_url, captcha_type)
AddForm ==
    /\ pc = "queue"
    /\ Len(queue) < MaxQueue
    /\ \E u \in FormUrls, ok \in env.saves :
          /\ queue' = add_form(queue, u, u, "recaptcha_v2")
          /\ queue_file' = save_queue(queue', queue_file, ok)
          /\ last_call' = [op |-> "add_form", form_url |-> u]
    /\ UNCHANGED exported
    /\ QueueFrame

\* CaptchaQueueManager.update_status(form_url, status)
UpdateStatus ==
    /\ pc = "queue"
    /\ \E u \in FormUrls, status \in StatusArguments, ok \in env.saves :
          LET found == get_form_by_url(queue, u) # 0
          IN  /\ queue' = update_status(queue, u, status, NoNotes)
              /\ queue_file' = IF found
                               THEN save_queue(queue', queue_file, ok)
                               ELSE queue_file
              /\ last_call' = [op |-> "update_status", form_url |-> u,
                               status |-> status, returned |-> found]
    /\ UNCHANGED exported
    /\ QueueFrame

\* if removed > 0: self._save_queue()
clear_completed_saves_after_two(removed) == removed > 1

clear_completed_saves(removed) == removed > 0

\* CaptchaQueueManager.clear_completed()
ClearCompleted ==
    /\ pc = "queue"
    /\ \E ok \in env.saves :
          LET removed == Len(queue) - Len(clear_completed(queue))
          IN  /\ queue' = clear_completed(queue)
              /\ queue_file' = IF clear_completed_saves(removed)
                               THEN save_queue(queue', queue_file, ok)
                               ELSE queue_file
              /\ last_call' = [op |-> "clear_completed",
                               returned |-> removed]
    /\ UNCHANGED exported
    /\ QueueFrame

\* CaptchaQueueManager.export_pending_to_csv(output_file): with no pending
\* entry it returns None and writes nothing
ExportPendingToCsv ==
    /\ pc = "queue"
    /\ LET pending == get_pending_forms(queue)
       IN  IF pending = <<>>
           THEN /\ last_call' = [op |-> "export_pending_to_csv",
                                 returned |-> <<>>]
                /\ UNCHANGED exported
           ELSE /\ last_call' = [op |-> "export_pending_to_csv",
                                 returned |-> <<"output_file">>]
                /\ exported' = export_rows(queue)
    /\ UNCHANGED <<queue, queue_file>>
    /\ QueueFrame

\* every save of the queue file succeeds
QueueEnv == [ServiceEnv EXCEPT !.pages = {}]

InitQueue ==
    /\ pc = "queue"
    /\ now = 0
    /\ calls = 0
    /\ form_url = CHOOSE u \in FormUrls : u.base = "https://example.jp"
    /\ fetch_attempt = 0
    /\ html_content = NoPage
    /\ result = NewResult
    /\ submission_result = NewSubmissionResult
    /\ attempt = 0
    /\ best_response = NoResponse
    /\ best_confidence = 0
    /\ response = NoResponse
    /\ queue = <<>>
    /\ last_submission_times = [b \in Bases |-> 0 - 1]
    /\ use_browser_fallback = TRUE
    /\ server_fetches = 0
    /\ env = QueueEnv
    /\ caller = "none"
    /\ dispatches = [b \in Bases |-> <<>>]
    /\ log = NewLog
    /\ calcIn = NoCalc
    /\ calcOut = <<>>
    /\ LocatorIdle
    /\ queue_file = <<>>
    /\ exported = <<>>
    /\ last_call = NoCall
    /\ submission_log = <<>>
    /\ db_log = <<>>
    /\ raised = FALSE
    /\ history = NoHistory
    /\ bulk = NoBulk
    /\ managers = NoManagers

NextQueue == AddForm \/ UpdateStatus \/ ClearCompleted \/ ExportPendingToCsv

SpecQueue == InitQueue /\ [][NextQueue]_vars

(***************************************************************************)
(* SubmissionVerifier.verify_submission as a call on a verifier object:    *)
(* the whole result dict (success, confidence, indicators, warnings), the  *)
(* save_responses setting and the files that _save_response writes.        *)
(***************************************************************************)

\* the entries of SUCCESS_KEYWORDS and ERROR_KEYWORDS that the vocabulary
\* can produce, in the order of the lists
SuccessKeywordOrder ==
    <<"thank you", "success", "successful", "arigatou_gozaimashita",
      "kanryou", "soushin_kanryou">>

ErrorKeywordOrder == <<"error", "fail", "failed">>

\* [kw for kw in KEYWORDS if kw in content][:3]
FirstThree(order, found) ==
    LET inOrder == SelectSeq(order, LAMBDA kw : kw \in found)
    IN  SubSeq(inOrder, 1, Min(3, Len(inOrder)))

Line(text, n, items) == [text |-> text, n |-> n, items |-> items]

\* result['indicators'], in the order the strategies append to it
indicators(r, original) ==
    (IF 200 <= r.status /\ r.status < 300
     THEN <<Line("HTTP", r.status, <<>>)>>
     ELSE IF 300 <= r.status /\ r.status < 400
     THEN <<Line("HTTP (redirect)", r.status, <<>>)>>
     ELSE <<Line("HTTP (error)", r.status, <<>>)>>)
    \o (IF r.url # original THEN <<Line("URL changed", 0, <<>>)>> ELSE <<>>)
    \o (IF r.url # original /\ SUCCESS_URL_PATTERNS(r.url)
        THEN <<Line("Success URL pattern", 0, <<"/thanks?">>)>> ELSE <<>>)
    \o (IF found_success(r.body) # {}
        THEN <<Line("Success keywords", 0,
                    FirstThree(SuccessKeywordOrder, found_success(r.body)))>>
        ELSE <<>>)
    \o (IF r.form /\ \E ph \in r.body : ConfirmationWords(ph)
        THEN <<Line("Form on confirmation page (expected)", 0, <<>>)>>
        ELSE <<>>)

\* result['warnings'], in the order the strategies append to it
warnings(r, original) ==
    (IF found_errors(r.body) # {}
     THEN <<Line("Error keywords", 0,
                 FirstThree(ErrorKeywordOrder, found_errors(r.body)))>>
     ELSE <<>>)
    \o (IF \E ph \in r.body : VALIDATION_ERROR_PATTERNS(ph)
        THEN <<Line("Validation error detected", 0, <<>>)>> ELSE <<>>)
    \o (IF ~r.form \/ \E ph \in r.body : ConfirmationWords(ph) THEN <<>>
        ELSE IF r.url = original
        THEN <<Line("Form still present on same page", 0, <<>>)>>
        ELSE IF ErrorInUrl(r.url) THEN <<Line("Form on error page", 0, <<>>)>>
        ELSE <<Line("Form still present", 0, <<>>)>>)

\* _save_response: the files of response_dir afterwards and whether the call
\* raised; the file name holds the time, the site and the verdict, and a
\* failure to write is caught and logged
save_response_uncaught(files, url, success, t, ok) ==
    [files |-> IF ok
               THEN files \cup {[timestamp |-> t, url_slug |-> url.base,
                                 status |-> IF success THEN "success"
                                            ELSE "failed"]}
               ELSE files,
     raised |-> ~ok]

save_response(files, url, success, t, ok) ==
    [files |-> IF ok
               THEN files \cup {[timestamp |-> t, url_slug |-> url.base,
                                 status |-> IF success THEN "success"
                                            ELSE "failed"]}
               ELSE files,
     raised |-> FALSE]

\* the dict verify_submission returns; save_raised says that the call
\* of _save_response raised into the except branch
verification_result(r, original, save_raised) ==
    IF r.unreadable
    THEN [success |-> FALSE, confidence |-> 50, indicators |-> <<>>,
          warnings |-> <<>>]
    ELSE [success |-> verify_submission(r, original).success,
          confidence |-> IF save_raised THEN 50
                         ELSE verify_submission(r, original).confidence,
          indicators |-> indicators(r, original),
          warnings |-> warnings(r, original)]

MaxVerifications == 2

\* the responses handed to the verifier
VerifierResponses ==
    {RespDone, RespSameForm, RespError, RespStatus(500),
     Resp(200, "/contact/thanks",
          {"thank you", "successful", "arigatou_gozaimashita",
           "soushin_kanryou"}, FALSE),
     Resp(302, "/contact/submit", {"complete"}, TRUE),
     Resp(200, "/contact/error", {"failed", "required"}, TRUE),
     [RespDone EXCEPT !.unreadable = TRUE]}

\* one call verify_submission(response, form_data, original_url) on a
\* verifier constructed with or without save_responses, at any time
VerifierCall ==
    /\ pc = "verifier"
    /\ calls < MaxVerifications
    /\ \E arg \in VerifierResponses, original \in FormUrls,
          save_responses \in BOOLEAN, ok \in BOOLEAN, dt \in 0..1 :
       LET r == Received([resp |-> arg], form_url)
           saved == IF save_responses /\ ~r.unreadable
                    THEN save_response(
                             history.saved, original,
                             verify_submission(r, original).success, now, ok)
                    ELSE [files |-> history.saved, raised |-> FALSE]
       IN  /\ history' =
                [verified |-> history.verified \cup
                     {[response |-> r, original_url |-> original,
                       output |-> verification_result(r, original,
                                                      saved.raised)]},
                 saved |-> saved.files]
           /\ now' = now + dt
    /\ calls' = calls + 1
    /\ UNCHANGED <<pc, form_url, fetch_attempt, html_content, result,
                   submission_result, attempt, best_response, best_confidence,
                   response, queue, last_submission_times,
                   use_browser_fallback, server_fetches, env, caller,
                   dispatches, log, calcIn, calcOut>>
    /\ UNCHANGED <<locatorVars, queueVars, sinkVars, bulkVars,
                   writerVars>>

InitVerifier ==
    /\ pc = "verifier"
    /\ now = 0
    /\ calls = 0
    /\ form_url = CHOOSE u \in FormUrls : u.base = "https://example.jp"
    /\ fetch_attempt = 0
    /\ html_content = NoPage
    /\ result = NewResult
    /\ submission_result = NewSubmissionResult
    /\ attempt = 0
    /\ best_response = NoResponse
    /\ best_confidence = 0
    /\ response = NoResponse
    /\ queue = <<>>
    /\ last_submission_times = [b \in Bases |-> 0 - 1]
    /\ use_browser_fallback = TRUE
    /\ server_fetches = 0
    /\ env = ServiceEnv
    /\ caller = "none"
    /\ dispatches = [b \in Bases |-> <<>>]
    /\ log = NewLog
    /\ calcIn = NoCalc
    /\ calcOut = <<>>
    /\ LocatorIdle
    /\ queue_file = <<>>
    /\ exported = <<>>
    /\ last_call = NoCall
    /\ submission_log = <<>>
    /\ db_log = <<>>
    /\ raised = FALSE
    /\ history = NoHistory
    /\ bulk = NoBulk
    /\ managers = NoManagers

NextVerifier == VerifierCall

SpecVerifier == InitVerifier /\ [][NextVerifier]_vars

(***************************************************************************)
(* FormSubmissionService.submit_bulk_inquiries: the loop over the crawl    *)
(* results, each target that is not skipped being handed to submit_inquiry,*)
(* and the summary printed at the end.  bulk is [total, skip_with_email,   *)
(* i, seen, results, summary]: i is the loop index, seen the targets the   *)
(* loop has taken so far and results the submission_status of each result  *)
(* appended to submission_results.                                         *)
(***************************************************************************)
rate_limit_delay == 2

MaxTargets == 2

\* a crawl result, by the keys the loop reads; None is a missing value
Targets ==
    [inquiryFormUrl : {<<>>} \cup
                      {<<u>> : u \in {v \in FormUrls :
                                        v.base = "https://example.jp"}},
     companyName : {None, "Acme"},
     email : {None, "info@example.jp"}]

Skipped_ignoring_email(target, skip_with_email) ==
    \/ target.inquiryFormUrl = <<>>
    \/ target.companyName = None

\* the three "continue" branches of the loop
Skipped(target, skip_with_email) ==
    \/ target.inquiryFormUrl = <<>>
    \/ target.companyName = None
    \/ (skip_with_email /\ target.email # None)

Count(results, status) ==
    Cardinality({k \in DOMAIN results : results[k] = status})

\* the counts _print_bulk_summary computes
bulk_summary(results) ==
    [total |-> Len(results),
     successful |-> Count(results, "success"),
     failed |-> Count(results, "failed"),
     errors |-> Count(results, "error"),
     fetch_errors |-> Count(results, "fetch_error"),
     captcha_blocked |-> Count(results, "captcha_blocked")]

\* the head of the loop body: the target is skipped or submit_inquiry is
\* called with its form URL
BulkNext ==
    /\ pc = "bulk"
    /\ bulk.i < bulk.total
    /\ \E target \in Targets :
          /\ bulk' = [bulk EXCEPT !.i = @ + 1, !.seen = Append(@, target)]
          /\ IF Skipped(target, bulk.skip_with_email)
             THEN UNCHANGED <<pc, calls, form_url, fetch_attempt,
                              html_content, result, submission_result,
                              attempt, best_response, best_confidence,
                              response, queue, last_submission_times,
                              use_browser_fallback, server_fetches, env,
                              caller, dispatches, log, calcIn, calcOut,
                              locatorVars, queueVars, sinkVars, verifierVars,
                              writerVars>>
             ELSE StartInquiry(target.inquiryFormUrl[1])
    /\ UNCHANGED now

\* the rest of the loop body, once submit_inquiry has returned
BulkCollect ==
    /\ pc = "idle"
    /\ bulk.i > 0
    /\ bulk' = [bulk EXCEPT !.results = Append(@, result.submission_status)]
    /\ now' = IF bulk.i < bulk.total THEN now + rate_limit_delay ELSE now
    /\ pc' = "bulk"
    /\ UNCHANGED <<calls, form_url, fetch_attempt, html_content, result,
                   submission_result, attempt, best_response, best_confidence,
                   response, queue, last_submission_times,
                   use_browser_fallback, server_fetches, env, caller,
                   dispatches, log, calcIn, calcOut>>
    /\ UNCHANGED <<locatorVars, queueVars, sinkVars, verifierVars, writerVars>>

\* the end of the loop: the summary, which is skipped without results
BulkReturn ==
    /\ pc = "bulk"
    /\ bulk.i = bulk.total
    /\ bulk' = [bulk EXCEPT !.summary = IF bulk.results = <<>> THEN <<>>
                                        ELSE <<bulk_summary(bulk.results)>>]
    /\ pc' = "bulk_done"
    /\ UNCHANGED <<now, calls, form_url, fetch_attempt, html_content, result,
                   submission_result, attempt, best_response, best_confidence,
                   response, queue, last_submission_times,
                   use_browser_fallback, server_fetches, env, caller,
                   dispatches, log, calcIn, calcOut>>
    /\ UNCHANGED <<locatorVars, queueVars, sinkVars, verifierVars, writerVars>>

BulkEnv == [SinkEnv EXCEPT !.log_writes = {TRUE}, !.db_writes = {TRUE}]

InitBulk ==
    /\ pc = "bulk"
    /\ now = 0
    /\ calls = 0
    /\ form_url = CHOOSE u \in FormUrls : u.base = "https://example.jp"
    /\ fetch_attempt = 0
    /\ html_content = NoPage
    /\ result = NewResult
    /\ submission_result = NewSubmissionResult
    /\ attempt = 0
    /\ best_response = NoResponse
    /\ best_confidence = 0
    /\ response = NoResponse
    /\ queue = <<>>
    /\ last_submission_times = [b \in Bases |-> 0 - 1]
    /\ use_browser_fallback = TRUE
    /\ server_fetches = 0
    /\ env = BulkEnv
    /\ caller = "none"
    /\ dispatches = [b \in Bases |-> <<>>]
    /\ log = NewLog
    /\ calcIn = NoCalc
    /\ calcOut = <<>>
    /\ LocatorIdle
    /\ queue_file = <<>>
    /\ exported = <<>>
    /\ last_call = NoCall
    /\ submission_log = <<>>
    /\ db_log = <<>>
    /\ raised = FALSE
    /\ history = NoHistory
    /\ bulk \in [total : 0..MaxTargets, skip_with_email : BOOLEAN, i : {0},
                 seen : {<<>>}, results : {<<>>}, summary : {<<>>}]
    /\ managers = NoManagers

NextBulk ==
    \/ BulkNext
    \/ BulkCollect
    \/ BulkReturn
    \/ FetchPage
    \/ SubmitToForm
    \/ Attempt
    \/ SubmitFormReturn
    \/ FinishInquiry

SpecBulk == InitBulk /\ [][NextBulk]_vars

(***************************************************************************)
(* The payload.  _prepare_data copies the hidden fields of the analysis    *)
(* into the form data; _intelligent_submit then passes the whole dict      *)
(* through FormDataValidator.validate_form_data, merges the CSRF tokens it *)
(* re-reads from the page, and hands the dict to the transports.  Names    *)
(* and values are sequences of characters.                                 *)
(***************************************************************************)
MaxValueLen == 2

ValueChars == {" ", "n", "N"}

HiddenValues ==
    UNION {[1..n -> ValueChars] : n \in 0..MaxValueLen}

HiddenNames ==
    {<<"_", "t", "o", "k", "e", "n">>, <<"m", "a", "i", "l">>,
     <<"n", "a", "m", "e">>, <<"t", "e", "l">>,
     <<"c", "o", "m", "p", "a", "n", "y">>,
     <<"m", "e", "s", "s", "a", "g", "e">>, <<"r", "e", "f">>}

Upper(text) ==
    [i \in 1..Len(text) |->
        CASE text[i] = "f" -> "F"
          [] text[i] = "c" -> "C"
          [] text[i] = "n" -> "N"
          [] OTHER         -> text[i]]

\* str.strip()
RECURSIVE Strip(_)
Strip(text) ==
    IF text = <<>> THEN text
    ELSE IF Head(text) = " " THEN Strip(Tail(text))
    ELSE IF text[Len(text)] = " " THEN Strip(SubSeq(text, 1, Len(text) - 1))
    ELSE text

\* re.sub(r'\s+', ' ', text)
RECURSIVE CollapseSpaces(_)
CollapseSpaces(text) ==
    IF Len(text) < 2 THEN text
    ELSE IF text[1] = " " /\ text[2] = " " THEN CollapseSpaces(Tail(text))
    ELSE <<text[1]>> \o CollapseSpaces(Tail(text))

\* ' '.join(p.capitalize() for p in text.split()), on collapsed text
CapitalizeWords(text) ==
    [i \in 1..Len(text) |->
        IF i = 1 \/ text[i - 1] = " " THEN Upper(<<text[i]>>)[1]
        ELSE Lower(<<text[i]>>)[1]]

\* the word of text that holds position i
WordAt(text, i) ==
    LET first == CHOOSE a \in 1..i :
                    /\ \A k \in a..i : text[k] # " "
                    /\ a = 1 \/ text[a - 1] = " "
        last == CHOOSE b \in i..Len(text) :
                    /\ \A k \in i..b : text[k] # " "
                    /\ b = Len(text) \/ text[b + 1] = " "
    IN  SubSeq(text, first, last)

\* the abbreviations _format_company keeps in upper case
abbreviations ==
    {<<"L", "L", "C">>, <<"I", "N", "C">>, <<"L", "T", "D">>,
     <<"C", "O", "R", "P">>, <<"C", "O">>}

\* the text holds no '@', so the pattern of _format_email cannot match it
\* and its blanks are removed
format_email(email) ==
    SelectSeq(Lower(Strip(email)), LAMBDA c : c # " ")

\* the text holds no digit: "return phone  # Return original if no digits"
format_phone(phone) == phone

\* the text holds no Japanese character
format_name(name) == CapitalizeWords(CollapseSpaces(Strip(name)))

format_company(company) ==
    LET text == CollapseSpaces(Strip(company))
        capitalized == CapitalizeWords(text)
    IN  [i \in 1..Len(text) |->
            IF text[i] # " " /\ Upper(WordAt(text, i)) \in abbreviations
            THEN Upper(<<text[i]>>)[1] ELSE capitalized[i]]

\* the text holds no line break
format_message(message) == Strip(message)

\* FormDataValidator.validate_and_format
validate_and_format(field_name, value, field_type) ==
    LET field_name_lower == Lower(field_name)
        value_str == Strip(value)
        has(word) == IsSubstring(word, field_name_lower)
    IN  IF value = <<>> THEN value
        ELSE IF field_type = "email"
                \/ has(<<"e", "m", "a", "i", "l">>)
                \/ has(<<"m", "a", "i", "l">>)
        THEN format_email(value_str)
        ELSE IF field_type = "tel"
                \/ has(<<"p", "h", "o", "n", "e">>) \/ has(<<"t", "e", "l">>)
        THEN format_phone(value_str)
        ELSE IF has(<<"n", "a", "m", "e">>) THEN format_name(value_str)
        ELSE IF has(<<"c", "o", "m", "p", "a", "n", "y">>)
        THEN format_company(value_str)
        ELSE IF field_type = "textarea"
                \/ has(<<"m", "e", "s", "s", "a", "g", "e">>)
        THEN format_message(value_str)
        ELSE value_str

\* CSRF_FIELD_NAMES, lower-cased: every other entry of the list holds 'token'
CSRF_FIELD_NAMES == {<<"t", "o", "k", "e", "n">>, <<"_", "c", "s", "r", "f">>}

\* extract_csrf_tokens, method 1: the hidden input is taken as a CSRF token
is_csrf_field(field_name) ==
    \E csrf \in CSRF_FIELD_NAMES : IsSubstring(csrf, Lower(field_name))

\* the value of a hidden input in the dict _intelligent_submit hands to the
\* transports: formatted by the validator, then overwritten with the page's
\* value when the CSRF extractor picks the input up
hidden_sent(field_name, value) ==
    IF is_csrf_field(field_name) THEN value
    ELSE validate_and_format(field_name, value, "hidden")

\* _prepare_data followed by the head of _intelligent_submit, for a form
\* with one hidden input
PreparePayload ==
    /\ pc = "payload"
    /\ calcIn.kind = "payload"
    /\ calcOut = <<>>
    /\ calcOut' = <<[sent |-> hidden_sent(calcIn.arg.name, calcIn.arg.value)]>>
    /\ pc' = "sent"
    /\ UNCHANGED <<now, calls, form_url, fetch_attempt, html_content, result,
                   submission_result, attempt, best_response, best_confidence,
                   response, queue, last_submission_times,
                   use_browser_fallback, server_fetches, env, caller,
                   dispatches, log, calcIn>>
    /\ UNCHANGED <<locatorVars, queueVars, sinkVars, verifierVars, bulkVars,
                   writerVars>>

InitPayload ==
    /\ pc = "payload"
    /\ now = 0
    /\ calls = 0
    /\ form_url = CHOOSE u \in FormUrls : u.base = "https://example.jp"
    /\ fetch_attempt = 0
    /\ html_content = NoPage
    /\ result = NewResult
    /\ submission_result = NewSubmissionResult
    /\ attempt = 0
    /\ best_response = NoResponse
    /\ best_confidence = 0
    /\ response = NoResponse
    /\ queue = <<>>
    /\ last_submission_times = [b \in Bases |-> 0 - 1]
    /\ use_browser_fallback = TRUE
    /\ server_fetches = 0
    /\ env = ServiceEnv
    /\ caller = "none"
    /\ dispatches = [b \in Bases |-> <<>>]
    /\ log = NewLog
    /\ calcIn \in [kind : {"payload"},
                   arg : [name : HiddenNames, value : HiddenValues]]
    /\ calcOut = <<>>
    /\ LocatorIdle
    /\ queue_file = <<>>
    /\ exported = <<>>
    /\ last_call = NoCall
    /\ submission_log = <<>>
    /\ db_log = <<>>
    /\ raised = FALSE
    /\ history = NoHistory
    /\ bulk = NoBulk
    /\ managers = NoManagers

NextPayload == PreparePayload

SpecPayload == InitPayload /\ [][NextPayload]_vars

(***************************************************************************)
(* Several CaptchaQueueManager instances opened on one queue file.  Each   *)
(* instance loads the file once, in its constructor, and afterwards every  *)
(* mutation changes its own self.queue and rewrites the whole file from    *)
(* it.  managers is [queue, mutated, writes]: the self.queue of each       *)
(* instance, the instances that have mutated so far, and the number of     *)
(* mutations made.                                                         *)
(***************************************************************************)
Writers == {"A", "B"}

MaxWrites == 3

\* _load_queue: self.queue after the constructor
load_queue(file) == file

\* the frame of a mutation made by instance m: its queue becomes q and the
\* file is rewritten from it when the method saves
WriterMutates(m, q, saves, call) ==
    /\ pc = "writers"
    /\ managers.writes < MaxWrites
    /\ managers' = [queue |-> [managers.queue EXCEPT ![m] = q],
                    mutated |-> managers.mutated \cup {m},
                    writes |-> managers.writes + 1]
    /\ queue_file' = IF saves THEN save_queue(q, queue_file, TRUE)
                     ELSE queue_file
    /\ last_call' = call
    /\ UNCHANGED <<pc, now, calls, form_url, fetch_attempt, html_content,
                   result, submission_result, attempt, best_response,
                   best_confidence, response, queue, last_submission_times,
                   use_browser_fallback, server_fetches, env, caller,
                   dispatches, log, calcIn, calcOut, exported>>
    /\ UNCHANGED <<locatorVars, sinkVars, verifierVars, bulkVars>>

WriterAddForm ==
    \E m \in Writers, u \in FormUrls :
        WriterMutates(m, add_form(managers.queue[m], u, u, "recaptcha_v2"),
                      TRUE, [op |-> "add_form", by |-> m, form_url |-> u])

WriterUpdateStatus ==
    \E m \in Writers, u \in FormUrls, status \in DocumentedStatuses :
        WriterMutates(m, update_status(managers.queue[m], u, status, NoNotes),
                      get_form_by_url(managers.queue[m], u) # 0,
                      [op |-> "update_status", by |-> m, form_url |-> u])

WriterClearCompleted ==
    \E m \in Writers :
        WriterMutates(m, clear_completed(managers.queue[m]),
                      clear_completed(managers.queue[m]) # managers.queue[m],
                      [op |-> "clear_completed", by |-> m, form_url |-> None])

InitWriters ==
    /\ pc = "writers"
    /\ now = 0
    /\ calls = 0
    /\ form_url = CHOOSE u \in FormUrls : u.base = "https://example.jp"
    /\ fetch_attempt = 0
    /\ html_content = NoPage
    /\ result = NewResult
    /\ submission_result = NewSubmissionResult
    /\ attempt = 0
    /\ best_response = NoResponse
    /\ best_confidence = 0
    /\ response = NoResponse
    /\ queue = <<>>
    /\ last_submission_times = [b \in Bases |-> 0 - 1]
    /\ use_browser_fallback = TRUE
    /\ server_fetches = 0
    /\ env = QueueEnv
    /\ caller = "none"
    /\ dispatches = [b \in Bases |-> <<>>]
    /\ log = NewLog
    /\ calcIn = NoCalc
    /\ calcOut = <<>>
    /\ LocatorIdle
    /\ queue_file = <<>>
    /\ exported = <<>>
    /\ last_call = NoCall
    /\ submission_log = <<>>
    /\ db_log = <<>>
    /\ raised = FALSE
    /\ history = NoHistory
    /\ bulk = NoBulk
    /\ managers = [queue |-> [m \in Writers |-> load_queue(queue_file)],
                   mutated |-> {}, writes |-> 0]

NextWriters == WriterAddForm \/ WriterUpdateStatus \/ WriterClearCompleted

SpecWriters == InitWriters /\ [][NextWriters]_vars

\* the URLs of the pages holding a <form> that tier t has fetched
FormPagesFetched(t) ==
    {probes[i].url : i \in {k \in DOMAIN probes :
          /\ probes[k].op = "fetch"
          /\ probes[k].tier = t
          /\ HasFormTag(site, probes[k].url)}}

\* ... and of those among them whose form is kept as a candidate
CandidatePagesFetched(t) ==
    {u \in FormPagesFetched(t) :
        /\ PageKind(site, u) = "form"
        /\ t = "homepage" => u # RootUrl}

TiersInOrder == \A i \in DOMAIN tiers : tiers[i] = TierOrder[i]

ReturnedBy(t, pages) ==
    /\ detection # <<>>
    /\ detection[1].tier = t
    /\ detection[1].form_url # <<>>
    /\ detection[1].form_url[1] \in pages
    /\ tiers[Len(tiers)] = t

\* the site of the example: a form at the TOP path /inquiry/ and one at a
\* deep page, neither disallowed
C11_Example ==
    /\ site.pages["/inquiry/"] = "form"
    /\ site.pages[DeepLink] = "form"
    /\ site.disallowed = {}

\* C11 as stated: the tiers run in the order TOP, HIGH, homepage link scan,
\* MEDIUM, LOW, crawl, and a tier that has fetched a page with a <form>
\* returns that page and no later tier is invoked.
C11_FirstFormPageWins ==
    /\ TiersInOrder
    /\ \A t \in DOMAIN TierOrder :
          FormPagesFetched(TierOrder[t]) # {} =>
              ReturnedBy(TierOrder[t], FormPagesFetched(TierOrder[t]))

\* C11 amended: the tiers run in that order; a fixed-path tier returns the
\* first page with a <form> it fetches; the link scan and the crawl return
\* a page they fetched only when its form is kept as a candidate (a page
\* whose forms are all excluded, and the homepage itself in the link scan,
\* do not end the cascade); after a return no later tier is invoked; on
\* the site of the example /inquiry/ is returned and the crawl never runs.
C11_TierOrderShortCircuit ==
    /\ TiersInOrder
    /\ \A t \in {"top", "high", "medium", "low"} :
          FormPagesFetched(t) # {} =>
              /\ ReturnedBy(t, FormPagesFetched(t))
              /\ Cardinality(FormPagesFetched(t)) = 1
    /\ \A t \in {"homepage", "crawl"} :
          /\ CandidatePagesFetched(t) # {} =>
                ReturnedBy(t, CandidatePagesFetched(t))
          /\ (detection # <<>> /\ detection[1].tier = t) =>
                ReturnedBy(t, CandidatePagesFetched(t))
    /\ detection # <<>> => pc = "detected"
    /\ C11_Example =>
          /\ \A i \in DOMAIN tiers : tiers[i] # "crawl"
          /\ \A i \in DOMAIN probes : probes[i].tier # "crawl"
          /\ pc # "top" => detection = <<[form_url |-> <<"/inquiry/">>,
                                          tier |-> "top"]>>

\* the example site, detection finished
C11_Witness == C11_Example /\ pc = "detected" /\ tiers = <<"top">>

\* C12: in every tier the robots checker is consulted for a URL before the
\* URL is fetched, and a URL it disallows is never fetched.
C12_RobotsBeforeEveryFetch ==
    \A i \in DOMAIN probes :
        probes[i].op = "fetch" =>
            /\ is_allowed(site, probes[i].url)
            /\ \E j \in 1..(i - 1) :
                  probes[j] = Probe("robots", probes[i].url, probes[i].tier)


\* C13: after update_status(formUrl, 'completed') has returned True,
\* get_pending_forms() holds no entry whose form_url is formUrl, also when
\* add_form was called several times with that form_url.
C13_CompletedNotPending ==
    (/\ last_call.op = "update_status"
     /\ last_call.status = "completed"
     /\ last_call.returned)
    => \A i \in DOMAIN get_pending_forms(queue) :
          get_pending_forms(queue)[i].form_url # last_call.form_url

\* C14: export_pending_to_csv returns a path to a CSV whose 'Form URL'
\* values are exactly the form_url values of the pending entries, one row
\* per pending entry and none for another status, also when no entry is
\* pending.
C14_ExportIsPending ==
    last_call.op = "export_pending_to_csv" =>
        /\ last_call.returned # <<>>
        /\ Len(exported) = Len(get_pending_forms(queue))
        /\ \A i \in DOMAIN exported :
              /\ exported[i].form_url = get_pending_forms(queue)[i].form_url
              /\ exported[i].status = "pending"

\* C15: after any sequence of add_form, update_status and clear_completed
\* calls, every entry of the queue and of the queue file has a status in
\* {pending, in_progress, completed, failed}.
C15_StatusDocumented ==
    /\ \A i \in DOMAIN queue : queue[i].status \in DocumentedStatuses
    /\ \A i \in DOMAIN queue_file :
          queue_file[i].status \in DocumentedStatuses

\* C16: submit_inquiry never raises to its caller and every result it
\* returns has a submission_status, whichever way the call ends (no form,
\* CAPTCHA, low confidence, an exception inside the pipeline) and whether or
\* not the log file and the database accept their writes.
C16_NeverRaises ==
    Returned => /\ ~raised
                /\ result.submission_status # None

\* a call that ended in the except branch while the log file refused the line
C16_Witness ==
    /\ Returned
    /\ result.submission_status = "error"
    /\ submission_log = <<>>
    /\ ~raised

\* C17: for a response with status 200 whose final URL differs from the
\* original URL and ends in /thanks, whose body holds arigatou_gozaimashita
\* and no other success or error keyword, and which has no <form>,
\* verify_submission returns confidence >= 0.80 and success = true.
C17_ThanksPageAtLeast80 ==
    (/\ calcIn.kind = "verify"
     /\ calcOut # <<>>
     /\ calcIn.arg = [status |-> 200, path |-> "/contact/thanks",
                      body |-> {"arigatou_gozaimashita"}, form |-> FALSE,
                      unreadable |-> FALSE])
    => /\ calcOut[1].confidence >= 80
       /\ calcOut[1].success

\* C18: for a response with status 200, final URL equal to the original
\* URL, no success keyword, no error or validation keyword, and a <form>
\* present, verify_submission returns confidence < 0.30 and success = false.
C18_RedisplayedFormFails ==
    (/\ calcIn.kind = "verify"
     /\ calcOut # <<>>
     /\ calcIn.arg.status = 200
     /\ calcIn.arg.path = form_url.path
     /\ found_success(calcIn.arg.body) = {}
     /\ found_errors(calcIn.arg.body) = {}
     /\ ~ \E ph \in calcIn.arg.body : VALIDATION_ERROR_PATTERNS(ph)
     /\ calcIn.arg.form
     /\ ~calcIn.arg.unreadable)
    => /\ calcOut[1].confidence < 30
       /\ ~calcOut[1].success

\* C19: end to end, for a CAPTCHA-free form at https://example.jp/contact
\* with two required fields, no hidden fields and a standard POST, whose
\* submission ends at https://example.jp/contact/thanks with a body holding
\* soushin_kanryou, submit_inquiry reports success, a verification
\* confidence of at least 0.8 and submission_method 'standard'.
C19_EndToEndSuccess ==
    (/\ Returned
     /\ form_url = [base |-> "https://example.jp", path |-> "/contact"]
     /\ html_content = PlainPage
     /\ log.received # <<>>
     /\ LastReceived = <<Received([resp |-> RespDone], form_url)>>)
    => /\ result.submission_status = "success"
       /\ submission_result.success
       /\ submission_result.verification_confidence >= 80
       /\ submission_result.submission_method = "standard"

\* such a call has returned after a single attempt
C19_Witness ==
    /\ Returned
    /\ form_url = [base |-> "https://example.jp", path |-> "/contact"]
    /\ html_content = PlainPage
    /\ log.received = << <<Received([resp |-> RespDone], form_url)>> >>
    /\ submission_result.retry_count = 0

\* C20: verify_submission is deterministic: two calls with the same response
\* (status, URL, body) and the same original URL return the same success,
\* confidence, indicators and warnings, whatever the time of the call, the
\* calls made before it and the save_responses setting.
C20_VerifierDeterministic ==
    \A a, b \in history.verified :
        (a.response = b.response /\ a.original_url = b.original_url)
            => a.output = b.output

\* the same input has been verified twice, at different times, once by a
\* verifier that saved the response and once by one whose save failed or
\* that saved nothing
C20_Witness ==
    /\ calls = 2
    /\ now > 0
    /\ Cardinality(history.verified) = 1
    /\ Cardinality(history.saved) = 1
    /\ \E a \in history.verified : Len(a.output.indicators) > 3

\* C21: every result submit_bulk_inquiries returns has a submission_status
\* among success, failed, captcha_blocked, fetch_error and error, so the five
\* counts of the summary add up to the number of results; a target skipped
\* for a missing form URL, a missing company name or an existing email (with
\* skip_with_email set) gives no result and no submit_inquiry call.
C21_BulkOutcomes ==
    pc \in {"bulk", "bulk_done"} =>
        /\ \A k \in DOMAIN bulk.results :
              bulk.results[k] \in {"success", "failed", "captcha_blocked",
                                   "fetch_error", "error"}
        /\ bulk.summary # <<>> =>
              /\ bulk.summary[1].total = Len(bulk.results)
              /\ bulk.summary[1].successful + bulk.summary[1].failed
                   + bulk.summary[1].captcha_blocked
                   + bulk.summary[1].fetch_errors + bulk.summary[1].errors
                 = Len(bulk.results)
        /\ Len(bulk.results) =
              Cardinality({k \in DOMAIN bulk.seen :
                  /\ bulk.seen[k].inquiryFormUrl # <<>>
                  /\ bulk.seen[k].companyName # None
                  /\ ~(bulk.skip_with_email /\ bulk.seen[k].email # None)})
        /\ calls = Len(bulk.results)

\* a bulk run has returned one result and skipped a target that has an email
C21_Witness ==
    /\ pc = "bulk_done"
    /\ Len(bulk.results) = 1
    /\ bulk.summary # <<>>
    /\ \E k \in DOMAIN bulk.seen :
          /\ bulk.seen[k].inquiryFormUrl # <<>>
          /\ bulk.seen[k].companyName # None
          /\ bulk.seen[k].email # None

\* C22: every hidden input of the analyzed form is part of the payload that
\* is sent, with exactly the value it has in the page, whatever its name:
\* the normalizer does not trim, re-case or reformat it.
C22_HiddenVerbatim ==
    (calcIn.kind = "payload" /\ calcOut # <<>>) =>
        calcOut[1].sent = calcIn.arg.value

\* C23: the queue store is unsafe for concurrent writers.  As long as a
\* single instance mutates the queue, the file holds exactly that instance's
\* queue after each of its mutations, so nothing it added or set is missing;
\* with two instances mutating, an entry one of them added is absent from
\* the file after the other's next mutation (C23_Witness).
C23_SingleWriterLosesNothing ==
    (pc = "writers" /\ Cardinality(managers.mutated) <= 1) =>
        \A m \in managers.mutated : queue_file = managers.queue[m]

\* instance A holds an entry it added that is absent from the persisted
\* file, the last mutation being B's
C23_Witness ==
    /\ pc = "writers"
    /\ last_call.op # "none"
    /\ last_call.by = "B"
    /\ \E i \in DOMAIN managers.queue["A"] :
          \A j \in DOMAIN queue_file :
              queue_file[j].form_url # managers.queue["A"][i].form_url

\* C24: each submit_inquiry call appends exactly one record to the
\* submission log, whatever its outcome: never zero and never two.
C24_OneLogRecordPerCall ==
    Returned => Len(submission_log) = 1

\* the i-th response of the running call is a 2xx of confidence below 0.30
LowConfidence2xx(i) ==
    /\ log.received[i] # NoResponse
    /\ log.received[i][1].status \in 200..299
    /\ Confidence(log.received[i][1]) < 30

\* C25: a 2xx response whose verified confidence is below 0.30 is never
\* accepted while retries remain: it is followed by another attempt and
\* leaves a retry_errors entry; once MAX_RETRIES is reached the call reports
\* 'failed' with the best observed confidence attached.
C25_AmbiguousRetriedThenFailed ==
    Returned =>
        /\ \A i \in DOMAIN log.received :
              (LowConfidence2xx(i) /\ i <= MAX_RETRIES) =>
                  /\ i < Len(log.received)
                  /\ Len(submission_result.retry_errors) >= i
        /\ (/\ log.received # <<>>
            /\ \A i \in DOMAIN log.received : LowConfidence2xx(i)) =>
              /\ result.submission_status = "failed"
              /\ \A i \in DOMAIN log.received :
                    submission_result.verification_confidence
                        >= Confidence(log.received[i][1])

\* C26: a response with a non-retryable 4xx status (any 4xx but 408 and 429)
\* ends the retry loop on the attempt that produced it: it is returned with
\* no further attempt, no backoff sleep and no retry_errors entry for it.
C26_Hard4xxReturnedAtOnce ==
    \A i \in DOMAIN log.received :
        (/\ log.received[i] # NoResponse
         /\ log.received[i][1].status \in (400..499) \ {408, 429}) =>
            /\ i = Len(log.received)
            /\ pc # "retry"
            /\ pc \in {"verify", "returned"} => response = log.received[i]
            /\ Len(submission_result.retry_errors) = i - 1
            /\ Len(log.sleeps) = i - 1

\* the last attempt raised an exception that is not Timeout, ConnectionError
\* or HTTPError
RaisedNonTransient ==
    \E k \in DOMAIN log.raised :
        log.raised[k] \notin {"Timeout", "ConnectionError", "HTTPError"}

\* C27, as claimed: when an attempt fails with an exception that is not a
\* transient transport error the coordinator makes no further attempt and
\* returns the best response recorded so far, with browser fallback enabled
\* as well as disabled.
C27_NonTransientAborts ==
    RaisedNonTransient =>
        /\ pc # "retry"
        /\ pc \in {"verify", "returned"} => response = best_response

\* C27, amended: with browser fallback disabled such an exception reaches
\* the coordinator, which makes no further attempt, records a non-retryable
\* error and returns the best response recorded so far (possibly null);
\* with browser fallback enabled the engine catches it and tries a browser
\* submission, and the coordinator sees that submission's response or none.
C27_NonTransientAbortsWithoutFallback ==
    RaisedNonTransient =>
        IF use_browser_fallback
        THEN /\ log.transports[Len(log.transports)] = "browser"
             /\ \A e \in DOMAIN submission_result.retry_errors :
                   submission_result.retry_errors[e].msg # "Non-retryable"
        ELSE /\ pc # "retry"
             /\ pc \in {"verify", "returned"} => response = best_response
             /\ submission_result.retry_errors[
                    Len(submission_result.retry_errors)].msg = "Non-retryable"

\* without fallback, a retry raised ValueError after an earlier attempt had
\* left a best response, and the loop returned that response
C27_Witness ==
    /\ pc = "returned"
    /\ ~use_browser_fallback
    /\ RaisedNonTransient
    /\ log.engine_calls = 2
    /\ best_response # NoResponse
    /\ response = best_response

\* position of a transport in the documented order
TransportRank(t) ==
    CASE t = "multi_step" -> 1
      [] t = "ajax" -> 2
      [] t = "standard" -> 3
      [] t = "browser" -> 4

\* C29: within one attempt the transports are dispatched in the order
\* multi-step, AJAX, standard; a later one is dispatched only if every
\* earlier one produced no response, and the attempt returns the first
\* response produced.
C29_TransportsInOrderFirstResponseWins ==
    LET t == log.transports
        p == log.produced
    IN  /\ \A j, k \in DOMAIN t :
               j < k => TransportRank(t[j]) < TransportRank(t[k])
        /\ \A j, k \in DOMAIN t : j < k => p[j] = NoResponse
        /\ \A k \in DOMAIN t :
               p[k] # NoResponse => LastReceived = p[k]

\* C28: submit_inquiry fetches the form page at most 3 times and only goes
\* on fetching while every fetch so far failed; when all 3 fail it returns
\* 'fetch_error' without a call of the Analyzer or the engine and with the
\* CAPTCHA queue and the throttle state as they were, and no step of the
\* fetch phase changes them.
C28_FetchBoundedThenFetchError ==
    /\ [](/\ log.fetches <= 3
          /\ pc = "fetch" => log.fetches = fetch_attempt
          /\ pc \in {"pipeline", "retry", "throttle"} =>
                log.fetches = fetch_attempt + 1
          /\ (Returned /\ log.fetches = 3 /\ fetch_attempt = 3) =>
                result.submission_status = "fetch_error"
          /\ (Returned /\ result.submission_status = "fetch_error") =>
                /\ log.fetches = 3
                /\ log.analyzer_calls = 0
                /\ log.engine_calls = 0
                /\ queue = log.queue_before)
    /\ [][(pc = "fetch" \/ pc' = "fetch") =>
              UNCHANGED <<queue, last_submission_times>>]_vars

\* a second call ended in fetch_error after three fetches, with a form in
\* the CAPTCHA queue and a throttle entry left by the first call
C28_Witness ==
    /\ Returned
    /\ calls = 2
    /\ result.submission_status = "fetch_error"
    /\ log.fetches = 3
    /\ queue # <<>>
    /\ \E b \in Bases : last_submission_times[b] >= 0

\* C30: when the transports of an attempt end in a runtime failure of the
\* standard submission, then with browser fallback enabled a browser
\* submission is the last transport tried and the attempt ends with what it
\* returned; with browser fallback disabled no browser submission is tried
\* and the exception reaches the coordinator, which records it.
C30_BrowserFallbackAfterFailure ==
    log.raised # <<>> =>
        LET t == log.transports
            errors == submission_result.retry_errors
        IN  IF use_browser_fallback
            THEN /\ t[Len(t)] = "browser"
                 /\ t[Len(t) - 1] = "standard"
                 /\ LastReceived = log.produced[Len(t)]
                 /\ \A e \in DOMAIN errors :
                       errors[e].msg \notin
                           {"Timeout", "ValueError", "Non-retryable"}
            ELSE /\ \A k \in DOMAIN t : t[k] # "browser"
                 /\ LastReceived = NoResponse
                 /\ errors[Len(errors)].msg =
                       (IF log.raised[1] = "Timeout" THEN "Timeout"
                        ELSE "Non-retryable")

\* with fallback enabled, an attempt on an AJAX form in which the AJAX and
\* the standard submission failed tried the browser and, the browser
\* failing too, reported no response
C30_Witness ==
    /\ use_browser_fallback
    /\ log.raised # <<>>
    /\ \E k \in DOMAIN log.transports : log.transports[k] = "ajax"
    /\ log.transports[Len(log.transports)] = "browser"
    /\ LastReceived = NoResponse
    /\ submission_result.retry_errors # <<>>

\* ------------------------------------------------------------------------
\* Pure functions of the engine, the pipeline and the analyzer, applied to
\* inputs drawn in the initial state.

\* the state in which one function is about to be applied to calcIn
InitPure(start, inputs) ==
    /\ pc = start
    /\ now = 0
    /\ calls = 0
    /\ form_url = CHOOSE u \in FormUrls : u.base = "https://example.jp"
    /\ fetch_attempt = 0
    /\ html_content = NoPage
    /\ result = NewResult
    /\ submission_result = NewSubmissionResult
    /\ attempt = 0
    /\ best_response = NoResponse
    /\ best_confidence = 0
    /\ response = NoResponse
    /\ queue = <<>>
    /\ last_submission_times = [b \in Bases |-> 0 - 1]
    /\ use_browser_fallback = TRUE
    /\ server_fetches = 0
    /\ env = ServiceEnv
    /\ caller = "none"
    /\ dispatches = [b \in Bases |-> <<>>]
    /\ log = NewLog
    /\ calcIn \in inputs
    /\ calcOut = <<>>
    /\ LocatorIdle
    /\ queue_file = <<>>
    /\ exported = <<>>
    /\ last_call = NoCall
    /\ submission_log = <<>>
    /\ db_log = <<>>
    /\ raised = FALSE
    /\ history = NoHistory
    /\ bulk = NoBulk
    /\ managers = NoManagers

\* the function applied at start yields out and leaves the rest alone
ApplyPure(start, out) ==
    /\ pc = start
    /\ calcOut = <<>>
    /\ calcOut' = <<out>>
    /\ pc' = "applied"
    /\ UNCHANGED <<now, calls, form_url, fetch_attempt, html_content, result,
                   submission_result, attempt, best_response, best_confidence,
                   response, queue, last_submission_times,
                   use_browser_fallback, server_fetches, env, caller,
                   dispatches, log, calcIn>>
    /\ UNCHANGED <<locatorVars, queueVars, sinkVars, verifierVars, bulkVars,
                   writerVars>>

\* AjaxFormHandler.detect_submission_type on a page: endpoint starts as the
\* form's action, or the form URL when it has none, and is replaced by the
\* endpoint literal of the inline scripts when AJAX indicators and such a
\* literal are present
detect_submission_type(page) ==
    IF ~page.form
    THEN [ajax_detected |-> FALSE, endpoint |-> <<>>]
    ELSE [ajax_detected |-> page.indicators,
          endpoint |-> IF page.indicators /\ page.literal THEN <<"literal">>
                       ELSE IF page.action THEN <<"action">>
                       ELSE <<"form_url">>]

\* the AJAX branch of _intelligent_submit: whether the network capture is
\* invoked and the URL submit_ajax_form is called with
ajax_dispatch(page, fallback, captured) ==
    LET ajax_detection == detect_submission_type(page)
        capture == /\ ajax_detection.ajax_detected
                   /\ fallback
                   /\ ajax_detection.endpoint = <<>>
        endpoint == IF capture /\ captured # <<>> THEN <<captured[1]>>
                    ELSE ajax_detection.endpoint
    IN  [ajax |-> ajax_detection.ajax_detected,
         capture_invoked |-> capture,
         target |-> IF ~ajax_detection.ajax_detected THEN <<>>
                    ELSE IF endpoint # <<>> THEN endpoint
                    ELSE <<"form_url">>]

\* pages with or without a form, an action, AJAX indicators and an endpoint
\* literal; what the browser's network capture would record
AjaxInputs ==
    [kind : {"ajax"},
     page : [form : BOOLEAN, action : BOOLEAN, indicators : BOOLEAN,
             literal : BOOLEAN],
     fallback : BOOLEAN,
     captured : {<<>>, <<"captured_a">>, <<"captured_b", "captured_a">>}]

AjaxDispatch ==
    /\ calcIn.kind = "ajax"
    /\ ApplyPure("ajax", ajax_dispatch(calcIn.page, calcIn.fallback,
                                       calcIn.captured))

InitAjax == InitPure("ajax", AjaxInputs)

NextAjax == AjaxDispatch

SpecAjax == InitAjax /\ [][NextAjax]_vars

\* C31: when AJAX is detected, the inline scripts hold no endpoint literal
\* and a browser is available, the engine invokes the network capture and
\* submits to the first captured endpoint, not to the form action or URL.
C31_CaptureWhenNoLiteral ==
    (/\ calcIn.kind = "ajax"
     /\ calcOut # <<>>
     /\ calcOut[1].ajax
     /\ ~calcIn.page.literal
     /\ calcIn.fallback) =>
        /\ calcOut[1].capture_invoked
        /\ calcIn.captured # <<>> =>
              calcOut[1].target = <<calcIn.captured[1]>>

\* C32: submission_method names the transport that produced the response
\* finally returned: a response of the plain POST/GET is never reported as
\* 'ajax' or 'multi_step', or with a method left by an earlier attempt.
C32_MethodNamesProducer ==
    (/\ pc \in {"verify", "returned"}
     /\ response # NoResponse
     /\ response = LastReceived) =>
        LET t == log.transports
            method == submission_result.submission_method
        IN  /\ log.produced[Len(t)] = response
            /\ IF t[Len(t)] = "standard"
               THEN method \in {"standard", "csrf"}
               ELSE method = t[Len(t)]

\* C33: the queue entry created for a CAPTCHA-blocked form records the
\* captcha type the Analyzer detected, never 'unknown'.
C33_QueuedTypeIsDetectedType ==
    (Finished /\ result.captcha_queued) =>
        /\ queue # <<>>
        /\ queue[Len(queue)].captcha_type =
               analyze(html_content).captcha_type

\* pages for the Analyzer: every combination of CAPTCHA markers, with or
\* without a <form>, an action and a hidden input
AnalyzedPages ==
    {[PlainPage EXCEPT !.markers = ms, !.form = f, !.action = a,
                       !.hidden = h, !.token = IF h THEN 1 ELSE 0] :
        ms \in SUBSET {CaptchaTypes[i] : i \in 1..Len(CaptchaTypes)},
        f \in BOOLEAN, a \in BOOLEAN, h \in BOOLEAN}

\* FormAnalyzer.analyze(form_url, html_content)
Analyze ==
    /\ calcIn.kind = "page"
    /\ ApplyPure("analyze", analyze(calcIn.page))

InitAnalyzer == InitPure("analyze", [kind : {"page"}, page : AnalyzedPages])

NextAnalyzer == Analyze

SpecAnalyzer == InitAnalyzer /\ [][NextAnalyzer]_vars

\* the first of the checks, in the order of CaptchaTypes, that matches
FirstMarker(markers) ==
    CaptchaTypes[CHOOSE i \in 1..Len(CaptchaTypes) :
                    /\ CaptchaTypes[i] \in markers
                    /\ \A j \in 1..(i - 1) : CaptchaTypes[j] \notin markers]

\* C40: the CAPTCHA type is the first matching check in the order
\* recaptcha_v2, recaptcha_v3, hcaptcha, image; has_captcha is true exactly
\* when captcha_type is set, and exactly one issue is appended in that case
\* and none otherwise.
C40_FirstMatchingCaptchaCheck ==
    (calcIn.kind = "page" /\ calcOut # <<>> /\ calcOut[1].found) =>
        LET a == calcOut[1]
            markers == calcIn.page.markers
        IN  /\ markers # {} => a.captcha_type = FirstMarker(markers)
            /\ markers = {} => a.captcha_type = None
            /\ a.has_captcha <=> a.captcha_type # None
            /\ Len(a.issues) = IF a.has_captcha THEN 1 ELSE 0

\* a page with markers of three kinds, reCAPTCHA v3 the earliest, analyzed
C40_Witness ==
    /\ calcIn.kind = "page"
    /\ calcOut # <<>>
    /\ calcIn.page.markers = {"recaptcha_v3", "hcaptcha", "image"}
    /\ calcOut[1].captcha_type = "recaptcha_v3"
    /\ Len(calcOut[1].issues) = 1

\* _field_matches: the substrings that make a field name match a purpose
\* (the patterns of the Latin alphabet)
FieldMatchPatterns(purpose) ==
    CASE purpose = "email" -> {<<"e", "m", "a", "i", "l">>, <<"m", "a", "i", "l">>}
      [] purpose = "name" -> {<<"n", "a", "m", "e">>}
      [] purpose = "company" -> {<<"c", "o", "m", "p", "a", "n", "y">>}
      [] purpose = "message" -> {<<"m", "e", "s", "s", "a", "g", "e">>, <<"c", "o", "n", "t", "e", "n", "t">>, <<"i", "n", "q", "u", "i", "r", "y">>}
      [] purpose = "phone" -> {<<"p", "h", "o", "n", "e">>, <<"t", "e", "l">>}

field_matches(field_name, purpose) ==
    \E pattern \in FieldMatchPatterns(purpose) :
        IsSubstring(pattern, Lower(field_name))

\* field_mapping, in the order of the dict
FieldPurposes == <<"email", "name", "company", "message", "phone">>

\* the loop of _prepare_data for one visible field: the purposes, in the
\* order of field_mapping from the i-th on, whose value is given and which
\* the field name matches; the first of them supplies the value
RECURSIVE MatchingPurposes(_, _, _)
MatchingPurposes(field_name, given, i) ==
    IF i > Len(FieldPurposes) THEN <<>>
    ELSE (IF FieldPurposes[i] \in given
             /\ field_matches(field_name, FieldPurposes[i])
          THEN <<FieldPurposes[i]>> ELSE <<>>)
         \o MatchingPurposes(field_name, given, i + 1)

\* the caller value form_data holds for the field, named by its purpose
prepare_data(field_name, given) ==
    LET matching == MatchingPurposes(field_name, given, 1)
    IN  IF matching = <<>> THEN <<>> ELSE <<matching[1]>>

\* names of visible fields, and the caller values that are given
FieldNames ==
    {<<"e", "m", "a", "i", "l">>,
     <<"y", "o", "u", "r", "_", "n", "a", "m", "e">>,
     <<"c", "o", "m", "p", "a", "n", "y", "_", "n", "a", "m", "e">>,
     <<"c", "o", "m", "p", "a", "n", "y">>,
     <<"m", "e", "s", "s", "a", "g", "e">>,
     <<"t", "e", "l">>,
     <<"p", "h", "o", "n", "e">>,
     <<"s", "u", "b", "j", "e", "c", "t">>}

PrepareInputs ==
    [kind : {"field"}, name : FieldNames,
     given : SUBSET {FieldPurposes[i] : i \in 1..Len(FieldPurposes)}]

PrepareData ==
    /\ calcIn.kind = "field"
    /\ ApplyPure("prepare", prepare_data(calcIn.name, calcIn.given))

InitPrepare == InitPure("prepare", PrepareInputs)

NextPrepare == PrepareData

SpecPrepare == InitPrepare /\ [][NextPrepare]_vars

\* what a field of that name is for
OwnPurpose(field_name) ==
    CASE field_name = <<"e", "m", "a", "i", "l">> -> <<"email">>
      [] field_name = <<"y", "o", "u", "r", "_", "n", "a", "m", "e">> -> <<"name">>
      [] field_name = <<"c", "o", "m", "p", "a", "n", "y", "_", "n", "a", "m", "e">> -> <<"company">>
      [] field_name = <<"c", "o", "m", "p", "a", "n", "y">> -> <<"company">>
      [] field_name = <<"m", "e", "s", "s", "a", "g", "e">> -> <<"message">>
      [] field_name = <<"t", "e", "l">> -> <<"phone">>
      [] field_name = <<"p", "h", "o", "n", "e">> -> <<"phone">>
      [] OTHER -> <<>>

\* C34: in the payload each visible field receives at most one caller
\* value, and only the value of its own purpose: a company field such as
\* company_name receives the company name and never the sender name.
C34_FieldGetsOwnValue ==
    (calcIn.kind = "field" /\ calcOut # <<>>) =>
        \/ calcOut[1] = <<>>
        \/ calcOut[1] = OwnPurpose(calcIn.name)

\* C35: update_status(formUrl, status) changes only the first entry in
\* queue order whose form_url is formUrl and leaves every other entry and
\* the order as they were; with no such entry it returns False and changes
\* neither the queue in memory nor the file.
C35_UpdateStatusFrame ==
    [][last_call'.op = "update_status" =>
          LET u == last_call'.form_url
              matching == {i \in DOMAIN queue : queue[i].form_url = u}
          IN  IF matching = {}
              THEN /\ ~last_call'.returned
                   /\ queue' = queue
                   /\ queue_file' = queue_file
              ELSE LET first == CHOOSE i \in matching :
                                   \A j \in matching : i <= j
                   IN  /\ last_call'.returned
                       /\ Len(queue') = Len(queue)
                       /\ \A i \in DOMAIN queue :
                             i # first => queue'[i] = queue[i]
                       /\ queue'[first] =
                             [queue[first] EXCEPT
                                 !.status = last_call'.status]]_vars

\* of two entries with the same form_url, update_status has set the first
\* to 'completed' and left the second pending
C35_Witness ==
    /\ last_call.op = "update_status"
    /\ last_call.returned
    /\ last_call.status = "completed"
    /\ Len(queue) >= 2
    /\ queue[1].form_url = last_call.form_url
    /\ queue[2].form_url = last_call.form_url
    /\ queue[1].status = "completed"
    /\ queue[2].status = "pending"

MaxCrawlPages == 2

\* the URLs of the crawled sites, in the order their link tables use
CrawlUrls == <<RootUrl, ParamLink, DeepLink, "/inquiry/", "/contact.html">>

CrawlUrlSet == {CrawlUrls[i] : i \in DOMAIN CrawlUrls}

ContactLink(url) == [url |-> url, query |-> FALSE, contact |-> TRUE]

\* the link graphs of the crawled sites: the pages of Links, a ring in which
\* every page links to the next one, and a mesh in which every page links
\* to every page, itself included
LinkTables ==
    LET n == Len(CrawlUrls)
        at(u) == CHOOSE i \in 1..n : CrawlUrls[i] = u
    IN  {[u \in CrawlUrlSet |-> Links(u)],
         [u \in CrawlUrlSet |-> <<ContactLink(CrawlUrls[(at(u) % n) + 1])>>],
         [u \in CrawlUrlSet |-> [i \in 1..n |-> ContactLink(CrawlUrls[i])]]}

CrawlSites ==
    [pages : [CrawlUrlSet -> {"missing", "noform", "form"}],
     disallowed : {{}, {DeepLink}},
     links : LinkTables]

\* the loop state of _crawl_and_find_forms, as crawl_pass reads it
CrawlState ==
    [to_visit |-> crawl.to_visit, visited |-> visited_urls,
     found |-> crawl.found, probes |-> probes]

\* _crawl_and_find_forms(root_url) has been entered on a detector made with
\* max_pages = crawl.cap: the lists are fresh and visited_urls is cleared
InitCrawl ==
    /\ pc = "crawling"
    /\ now = 0
    /\ calls = 0
    /\ form_url = CHOOSE u \in FormUrls : u.base = "https://example.jp"
    /\ fetch_attempt = 0
    /\ html_content = NoPage
    /\ result = NewResult
    /\ submission_result = NewSubmissionResult
    /\ attempt = 0
    /\ best_response = NoResponse
    /\ best_confidence = 0
    /\ response = NoResponse
    /\ queue = <<>>
    /\ last_submission_times = [b \in Bases |-> 0 - 1]
    /\ use_browser_fallback = TRUE
    /\ server_fetches = 0
    /\ env = ServiceEnv
    /\ caller = "none"
    /\ dispatches = [b \in Bases |-> <<>>]
    /\ log = NewLog
    /\ calcIn = NoCalc
    /\ calcOut = <<>>
    /\ site \in CrawlSites
    /\ tiers = <<>>
    /\ probes = <<>>
    /\ visited_urls = {}
    /\ detection = <<>>
    /\ crawl \in [cap : 1..MaxCrawlPages, to_visit : {<<RootUrl>>},
                  found : {<<>>}]
    /\ queue_file = <<>>
    /\ exported = <<>>
    /\ last_call = NoCall
    /\ submission_log = <<>>
    /\ db_log = <<>>
    /\ raised = FALSE
    /\ history = NoHistory
    /\ bulk = NoBulk
    /\ managers = NoManagers

\* one pass of the while loop
CrawlPass ==
    /\ pc = "crawling"
    /\ ~crawl_exits(CrawlState, crawl.cap)
    /\ LET c == crawl_pass(site, CrawlState, crawl.cap)
       IN  /\ crawl' = [crawl EXCEPT !.to_visit = c.to_visit,
                                     !.found = c.found]
           /\ visited_urls' = c.visited
           /\ probes' = c.probes
    /\ UNCHANGED <<pc, serviceVars, site, tiers, detection, queue_file,
                   exported, last_call, submission_log, db_log, raised,
                   history, bulk, managers>>

\* the loop is left and pages_with_forms is returned
CrawlReturn ==
    /\ pc = "crawling"
    /\ crawl_exits(CrawlState, crawl.cap)
    /\ pc' = "crawled"
    /\ UNCHANGED <<serviceVars, locatorVars, queue_file, exported, last_call,
                   submission_log, db_log, raised, history, bulk, managers>>

NextCrawl == CrawlPass \/ CrawlReturn

\* the loop is sequential code: a pass that can run does run
SpecCrawl == InitCrawl /\ [][NextCrawl]_vars /\ WF_vars(NextCrawl)

\* the positions of the fetches in a sequence of probes
FetchProbes(ps) == {i \in DOMAIN ps : ps[i].op = "fetch"}

\* C38: the crawl tier terminates on every link graph, cyclic ones included;
\* it marks at most 2 * max_pages distinct URLs as visited, fetches no URL
\* twice and collects at most max_pages pages that hold a <form>.
C38_CrawlTerminatesWithinCaps ==
    /\ <>(pc = "crawled")
    /\ [](/\ Cardinality(visited_urls) <= 2 * crawl.cap
          /\ \A i, j \in FetchProbes(probes) :
                probes[i].url = probes[j].url => i = j
          /\ Len(crawl.found) <= crawl.cap)

\* the crawl of a cyclic site has returned on the size of visited_urls, with
\* URLs still waiting to be visited
C38_Witness ==
    /\ pc = "crawled"
    /\ Cardinality(visited_urls) = 2 * crawl.cap
    /\ crawl.to_visit # <<>>
    /\ Len(crawl.found) < crawl.cap
    /\ \E u \in visited_urls :
          \E i \in DOMAIN site.links[u] : site.links[u][i].url \in visited_urls


\* no tier has fetched a page that holds a <form>
NoFormPageFetched ==
    \A t \in DOMAIN TierOrder : FormPagesFetched(TierOrder[t]) = {}

\* C39: when no tier finds a page with a <form>, detect_contact_form returns
\* form_url = None after running each tier exactly once, without repeating a
\* probe, and it never raises: a failing or raising fetch in a tier ends in
\* the next tier or in the form_url = None result.
C39_NotFoundAfterEachTierOnce ==
    /\ ~raised
    /\ (pc = "detected" /\ NoFormPageFetched) =>
          /\ detection = <<[form_url |-> <<>>, tier |-> "none"]>>
          /\ tiers = TierOrder
          /\ \A i, j \in FetchProbes(probes) :
                probes[i].url = probes[j].url => i = j

====
